---- MODULE Spec2Model ----
(***************************************************************************)
(* Verification model of ntp-exporter's fault-tolerant querying layer.     *)
(*                                                                         *)
(*   SpecCB : internal/ntp/circuitbreaker.go, the per-target circuit       *)
(*            breaker client wrapped around a downstream querier.          *)
(*   SpecWP : internal/ntp/workerpool.go, the bounded worker pool.         *)
(*                                                                         *)
(* Time is counted in units of 30 seconds (the default Timeout).           *)
(***************************************************************************)
EXTENDS Integers, Sequences, FiniteSets, TLC

(***************************************************************************)
(* Bounds of the model.                                                    *)
(***************************************************************************)
MaxTime == 4
MaxCalls == 5
MaxServers == 2
MaxExecs == 2

(***************************************************************************)
(* Program constants (circuitbreaker.go, DefaultCircuitBreakerConfig).     *)
(***************************************************************************)
DefaultMaxRequests == 3
DefaultInterval == 2
DefaultTimeout == 1
MinTripRequests == 3
DefaultThresholdPct == 60

Servers == {"s1", "s2"}
Callers == {"g1", "g2"}

StateClosed == "closed"
StateHalfOpen == "half-open"
StateOpen == "open"

ZeroTime == -1
NoBreaker == [absent |-> TRUE]

\* Circuit breaker client: the configuration, the clock, the breaker map, each
\* calling goroutine's position, the last value returned to a caller, the
\* number of calls made, the servers called so far and the number of
\* invocations of the wrapped querier.
VARIABLES config, now, breakers, call, lastReturn, ncalls, queried, invoked

\* Worker pool: the size given to NewWorkerPool and the size kept, the running
\* flag, the servers whose QueryMultiple fails, each Execute call's state, the
\* last return of Execute and the number of Execute calls made.
VARIABLES sizeArg, size, running, failing, ex, ret, nexec

cbvars == <<config, now, breakers, call, lastReturn, ncalls, queried, invoked>>

wpvars == <<sizeArg, size, running, failing, ex, ret, nexec>>

\* Rate limiter: the arguments of NewRateLimiter, the clock, the global
\* limiter, the per-server limiter map, each querying goroutine's position,
\* the last value returned, the acquisitions that succeeded at the current
\* instant, the NTP exchanges performed and the number of calls made.
VARIABLES rlConfig, rlNow, global, perServer, waiter, rlRet, acquired,
          exchanges, rlCalls

rlvars == <<rlConfig, rlNow, global, perServer, waiter, rlRet, acquired,
            exchanges, rlCalls>>

\* DNS cache: minTTL and maxTTL, the clock, the DNSCacheEntry objects, the
\* cache map (hostname to entry), each resolving goroutine's position, the
\* last return of Resolve, the number of DNS lookups and of Resolve calls.
VARIABLES dnsConfig, dnsNow, heap, cache, resolving, dnsRet, lookups, dnsCalls

dnsvars == <<dnsConfig, dnsNow, heap, cache, resolving, dnsRet, lookups, dnsCalls>>

\* Scrape loop: the registry's collector list, the position of
\* runCollectionLoop, the ticks buffered in ticker.C, the ticks the ticker
\* produced, whether the context is cancelled, the CollectAll calls started,
\* the last CollectAll call's run and the return of the loop.
VARIABLES collectors, loopPc, tickC, ticks, shutdown, cycles, lastCollect, loopRet

scvars == <<collectors, loopPc, tickC, ticks, shutdown, cycles, lastCollect, loopRet>>

\* Collectors: the NTP part of the configuration, the metric sink, the
\* collector that runs next in the scrape cycle, what
\* the last Collect of the Base and of the Hybrid collector met and did, and
\* the last return of a Collect.
VARIABLES colCfg, sink, colPc, lastBase, lastHybrid, colRet

colvars == <<colCfg, sink, colPc, lastBase, lastHybrid, colRet>>

\* Client.QueryMultiple and AdaptiveSampler.Sample: the sampler's
\* configuration, the clock, whether the caller's context is cancelled, the
\* call in progress (a direct QueryMultiple or a Sample and its phase), the
\* frame of the QueryMultiple in progress and the last return to the caller.
VARIABLES smCfg, smNow, smCancelled, smCall, qm, smRet

smvars == <<smCfg, smNow, smCancelled, smCall, qm, smRet>>

\* Pool: the fields NewPool set, the clock in seconds of Unix time, the last
\* return of Resolve or Query with the addresses contacted, and the number of
\* calls made.
VARIABLES pool, poolNow, poolRet, poolCalls

poolvars == <<pool, poolNow, poolRet, poolCalls>>

\* WorkerPool.QueryAll: the position of the call, its samples argument, the
\* results Execute returned, the return of QueryAll, and the number of calls.
VARIABLES qaPc, qaSamples, qaResults, qaRet, qaCalls

qavars == <<qaPc, qaSamples, qaResults, qaRet, qaCalls>>

\* Validator: the Response at hand, the ValidationResult of Validate for it,
\* and the tag GetSuspicionReason returned for it.
VARIABLES vResp, vResult, vReason

vvars == <<vResp, vResult, vReason>>

\* The per-target map of a CircuitBreakerClient or RateLimiter under its
\* RWMutex: the map, the lock, each concurrent caller of getBreakerForServer
\* or getLimiterForServer, and the requests counted on each instance created.
VARIABLES regMap, regLock, regCaller, regCounts

regvars == <<regMap, regLock, regCaller, regCounts>>

\* Client.Query: for each call, the position of the caller, the position of
\* the goroutine it started, its result channel, whether its context is done,
\* and what it returned.
VARIABLES cqPc, cqTask, resultChan, cqCtx, cqRet

cqvars == <<cqPc, cqTask, resultChan, cqCtx, cqRet>>

\* Querier stacks of the collectors: the configuration, the clock, the stack
\* objects constructed, the stack each collector holds, the call in progress,
\* the last return, the
\* global tokens each collector took at the current instant and the number of
\* calls made.
VARIABLES stConfig, stNow, stacks, clientOf, stPending, stRet, stTaken, stCalls

stvars == <<stConfig, stNow, stacks, clientOf, stPending, stRet, stTaken, stCalls>>

\* Pools of the Base collector: the Pool object constructed last for each
\* configured pool, the clock, the last resolution, the DNS lookups made, the
\* pools resolved so far and the number of pool collections made.
VARIABLES bpPools, bpNow, bpRet, bpLookups, bpResolved, bpCalls

bpvars == <<bpPools, bpNow, bpRet, bpLookups, bpResolved, bpCalls>>

vars == <<cbvars, wpvars, rlvars, dnsvars, scvars, colvars, smvars, poolvars, qavars, vvars, regvars, cqvars, stvars, bpvars>>

\* The variables of the other components, which a component's actions leave
\* unchanged.
notCB == <<wpvars, rlvars, dnsvars, scvars, colvars, smvars, poolvars, qavars, vvars, regvars, cqvars, stvars, bpvars>>

notWP == <<cbvars, rlvars, dnsvars, scvars, colvars, smvars, poolvars, qavars, vvars, regvars, cqvars, stvars, bpvars>>

notRL == <<cbvars, wpvars, dnsvars, scvars, colvars, smvars, poolvars, qavars, vvars, regvars, cqvars, stvars, bpvars>>

notDNS == <<cbvars, wpvars, rlvars, scvars, colvars, smvars, poolvars, qavars, vvars, regvars, cqvars, stvars, bpvars>>

notSC == <<cbvars, wpvars, rlvars, dnsvars, colvars, smvars, poolvars, qavars, vvars, regvars, cqvars, stvars, bpvars>>

notCol == <<cbvars, wpvars, rlvars, dnsvars, scvars, smvars, poolvars, qavars, vvars, regvars, cqvars, stvars, bpvars>>

notSM == <<cbvars, wpvars, rlvars, dnsvars, scvars, colvars, poolvars, qavars, vvars, regvars, cqvars, stvars, bpvars>>

notPool == <<cbvars, wpvars, rlvars, dnsvars, scvars, colvars, smvars, qavars, vvars, regvars, cqvars, stvars, bpvars>>

notQA == <<cbvars, wpvars, rlvars, dnsvars, scvars, colvars, smvars, poolvars, vvars, regvars, cqvars, stvars, bpvars>>

notValidator == <<cbvars, wpvars, rlvars, dnsvars, scvars, colvars, smvars, poolvars, qavars, regvars, cqvars, stvars, bpvars>>

notReg == <<cbvars, wpvars, rlvars, dnsvars, scvars, colvars, smvars, poolvars, qavars, vvars, cqvars, stvars, bpvars>>

notCQ == <<cbvars, wpvars, rlvars, dnsvars, scvars, colvars, smvars, poolvars, qavars, vvars, regvars, stvars, bpvars>>

notStack == <<cbvars, wpvars, rlvars, dnsvars, scvars, colvars, smvars, poolvars, qavars, vvars, regvars, cqvars, bpvars>>

notBP == <<cbvars, wpvars, rlvars, dnsvars, scvars, colvars, smvars, poolvars, qavars, vvars, regvars, cqvars, stvars>>

\* The rate limiter at rest: NewRateLimiter(1, 1, 1) and no call made.
RLQuiet ==
  /\ rlConfig = [globalRate |-> 1, perServerRate |-> 1, burstSize |-> 1]
  /\ rlNow = 0
  /\ global = <<>>
  /\ perServer = <<>>
  /\ waiter = <<>>
  /\ rlRet = <<>>
  /\ acquired = <<>>
  /\ exchanges = 0
  /\ rlCalls = 0

\* The DNS cache at rest: NewDNSCache(DNSCacheConfig{}) and no call made.
DNSQuiet ==
  /\ dnsConfig = [minTTL |-> 10, maxTTL |-> 120]
  /\ dnsNow = 0
  /\ heap = <<>>
  /\ cache = <<>>
  /\ resolving = <<>>
  /\ dnsRet = <<>>
  /\ lookups = 0
  /\ dnsCalls = 0

\* The scrape loop at rest: an empty registry and a loop that was not started.
ScrapeQuiet ==
  /\ collectors = <<>>
  /\ loopPc = "start"
  /\ tickC = 0
  /\ ticks = 0
  /\ shutdown = FALSE
  /\ cycles = 0
  /\ lastCollect = <<>>
  /\ loopRet = "none"

\* The collectors at rest: no server configured and no Collect run.
ColQuiet ==
  /\ colCfg = <<>>
  /\ sink = <<>>
  /\ colPc = "base"
  /\ lastBase = <<>>
  /\ lastHybrid = <<>>
  /\ colRet = <<>>

\* The NTP client and the adaptive sampler at rest: no call made.
SamplerQuiet ==
  /\ smCfg = <<>>
  /\ smNow = 0
  /\ smCancelled = FALSE
  /\ smCall = <<>>
  /\ qm = <<>>
  /\ smRet = <<>>

\* The pool at rest: the default pool and no call made.
PoolQuiet ==
  /\ pool = <<>>
  /\ poolNow = 0
  /\ poolRet = <<>>
  /\ poolCalls = 0

\* QueryAll at rest: no call made.
QAQuiet ==
  /\ qaPc = "idle"
  /\ qaSamples = 0
  /\ qaResults = <<>>
  /\ qaRet = <<>>
  /\ qaCalls = 0

\* The validator at rest: no response to judge.
ValidatorQuiet ==
  /\ vResp = <<>>
  /\ vResult = <<>>
  /\ vReason = "none"

\* The per-target maps at rest: empty, unlocked, no caller.
RegQuiet ==
  /\ regMap = <<>>
  /\ regLock = <<>>
  /\ regCaller = <<>>
  /\ regCounts = <<>>

\* Client.Query at rest: no query made.
CQQuiet ==
  /\ cqPc = <<>>
  /\ cqTask = <<>>
  /\ resultChan = <<>>
  /\ cqCtx = <<>>
  /\ cqRet = <<>>

\* The collectors' querier stacks at rest: none constructed and no call made.
StackQuiet ==
  /\ stConfig = <<>>
  /\ stNow = 0
  /\ stacks = <<>>
  /\ clientOf = <<>>
  /\ stPending = <<>>
  /\ stRet = <<>>
  /\ stTaken = <<>>
  /\ stCalls = 0

\* The Base collector's pools at rest: none constructed and no cycle run.
BPQuiet ==
  /\ bpPools = <<>>
  /\ bpNow = 0
  /\ bpRet = <<>>
  /\ bpLookups = 0
  /\ bpResolved = {}
  /\ bpCalls = 0

(***************************************************************************)
(* gobreaker.Counts and its update methods.                                *)
(***************************************************************************)
ZeroCounts ==
  [Requests |-> 0, TotalSuccesses |-> 0, TotalFailures |-> 0,
   ConsecutiveSuccesses |-> 0, ConsecutiveFailures |-> 0]

countsOnRequest(c) == [c EXCEPT !.Requests = @ + 1]

countsOnSuccess(c) ==
  [c EXCEPT !.TotalSuccesses = @ + 1, !.ConsecutiveSuccesses = @ + 1,
            !.ConsecutiveFailures = 0]

countsOnFailure(c) ==
  [c EXCEPT !.TotalFailures = @ + 1, !.ConsecutiveFailures = @ + 1,
            !.ConsecutiveSuccesses = 0]

(***************************************************************************)
(* ReadyToTrip of DefaultCircuitBreakerConfig and of                       *)
(* NewCircuitBreakerConfigWithThreshold: Requests >= 3 and                 *)
(* TotalFailures / Requests >= threshold.  The threshold is a percentage;  *)
(* the float64 quotient of two small counts compares with it exactly as    *)
(* the rationals do.  Requests = 0 makes the quotient NaN, and the         *)
(* conjunction false.                                                      *)
(***************************************************************************)
ReadyToTripAnyCount(thresholdPct, counts) ==
  counts.TotalFailures * 100 >= thresholdPct * counts.Requests

ReadyToTrip(thresholdPct, counts) ==
  /\ counts.Requests >= MinTripRequests
  /\ counts.TotalFailures * 100 >= thresholdPct * counts.Requests

DefaultCircuitBreakerConfig ==
  [MaxRequests |-> DefaultMaxRequests, Interval |-> DefaultInterval,
   Timeout |-> DefaultTimeout, ThresholdPct |-> DefaultThresholdPct]

NewCircuitBreakerConfigWithThreshold(maxRequests, interval, timeout, thresholdPct) ==
  [MaxRequests |-> maxRequests, Interval |-> interval,
   Timeout |-> timeout, ThresholdPct |-> thresholdPct]

\* NewCircuitBreakerClient: a config with MaxRequests = 0 is replaced by the default.
NewCircuitBreakerClient(cfg) ==
  IF cfg.MaxRequests = 0 THEN DefaultCircuitBreakerConfig ELSE cfg

\* The configurations the client is constructed with.
InputConfigs ==
  { NewCircuitBreakerConfigWithThreshold(m, DefaultInterval, DefaultTimeout,
                                         DefaultThresholdPct) : m \in 0..1 }

(***************************************************************************)
(* gobreaker.CircuitBreaker: generations, expiry and the state machine.    *)
(***************************************************************************)
toNewGeneration(b, t) ==
  [b EXCEPT !.generation = @ + 1,
            !.counts = ZeroCounts,
            !.expiry = CASE b.state = StateClosed ->
                              IF b.interval = 0 THEN ZeroTime ELSE t + b.interval
                         [] b.state = StateOpen -> t + b.timeout
                         [] OTHER -> ZeroTime]

setState(b, st, t) ==
  IF b.state = st THEN b ELSE toNewGeneration([b EXCEPT !.state = st], t)

\* currentState: the breaker as it is after the lazy expiry check at time t.
currentState(b, t) ==
  CASE b.state = StateClosed ->
         IF b.expiry # ZeroTime /\ b.expiry < t THEN toNewGeneration(b, t) ELSE b
    [] b.state = StateOpen ->
         IF b.expiry < t THEN setState(b, StateHalfOpen, t) ELSE b
    [] OTHER -> b

beforeRequest(b, t) ==
  LET cur == currentState(b, t) IN
  IF cur.state = StateOpen
    THEN [breaker |-> cur, generation |-> cur.generation, err |-> "ErrOpenState"]
    ELSE IF cur.state = StateHalfOpen /\ cur.counts.Requests >= cur.maxRequests
      THEN [breaker |-> cur, generation |-> cur.generation, err |-> "ErrTooManyRequests"]
      ELSE [breaker |-> [cur EXCEPT !.counts = countsOnRequest(@)],
            generation |-> cur.generation, err |-> "nil"]

onSuccess(b, t) ==
  CASE b.state = StateClosed -> [b EXCEPT !.counts = countsOnSuccess(@)]
    [] b.state = StateHalfOpen ->
         LET c == [b EXCEPT !.counts = countsOnSuccess(@)] IN
         IF c.counts.ConsecutiveSuccesses >= c.maxRequests
           THEN setState(c, StateClosed, t) ELSE c
    [] OTHER -> b

onFailure(b, t) ==
  CASE b.state = StateClosed ->
         LET c == [b EXCEPT !.counts = countsOnFailure(@)] IN
         IF ReadyToTrip(c.thresholdPct, c.counts) THEN setState(c, StateOpen, t) ELSE c
    [] b.state = StateHalfOpen -> setState(b, StateOpen, t)
    [] OTHER -> b

afterRequest(b, before, success, t) ==
  LET cur == currentState(b, t) IN
  IF cur.generation # before THEN cur
  ELSE IF success THEN onSuccess(cur, t) ELSE onFailure(cur, t)

(***************************************************************************)
(* CircuitBreakerClient.                                                   *)
(***************************************************************************)
\* gobreaker.NewCircuitBreaker with the Settings getBreakerForServer passes
\* (all of them positive here, so none of the library's defaults applies).
BreakerWith(maxRequests, interval, timeout, thresholdPct, t) ==
  toNewGeneration(
    [state |-> StateClosed, generation |-> 0, counts |-> ZeroCounts,
     expiry |-> ZeroTime, maxRequests |-> maxRequests,
     interval |-> interval, timeout |-> timeout,
     thresholdPct |-> thresholdPct], t)

NewBreakerNoInterval(cfg, t) ==
  BreakerWith(cfg.MaxRequests, 0, cfg.Timeout, cfg.ThresholdPct, t)

NewBreakerSwappedPeriods(cfg, t) ==
  BreakerWith(cfg.MaxRequests, cfg.Timeout, cfg.Interval, cfg.ThresholdPct, t)

NewBreakerOneMoreProbe(cfg, t) ==
  BreakerWith(cfg.MaxRequests + 1, cfg.Interval, cfg.Timeout, cfg.ThresholdPct, t)

NewBreaker(cfg, t) ==
  BreakerWith(cfg.MaxRequests, cfg.Interval, cfg.Timeout, cfg.ThresholdPct, t)

\* cb.breakers[server] = breaker
SetBreakerShared(bs, server, b) == [s \in Servers |-> b]

SetBreaker(bs, server, b) == [bs EXCEPT ![server] = b]

\* getBreakerForServer: the map after the lookup, the breaker created if absent.
getBreakerForServer(bs, cfg, server, t) ==
  IF bs[server] # NoBreaker THEN bs
  ELSE SetBreaker(bs, server, NewBreaker(cfg, t))

\* The error Query and QueryMultiple return for an error of breaker.Execute.
WrapErrorWrongSentinel(err) ==
  IF err = "ErrTooManyRequests" THEN "CircuitOpen" ELSE err

WrapError(err) ==
  IF err = "ErrOpenState" THEN "CircuitOpen" ELSE err

\* GetState / GetCounts: what is reported for a server at time t.
GetState(bs, server, t) ==
  IF bs[server] = NoBreaker THEN StateClosed ELSE currentState(bs[server], t).state

GetCounts(bs, server) ==
  IF bs[server] = NoBreaker THEN ZeroCounts ELSE bs[server].counts

Idle == [pc |-> "idle", server |-> "none", generation |-> 0, probe |-> FALSE]

NoReturn == [server |-> "none", value |-> "none"]

CBInit ==
  /\ RLQuiet
  /\ DNSQuiet
  /\ ScrapeQuiet
  /\ ColQuiet
  /\ SamplerQuiet
  /\ PoolQuiet
  /\ QAQuiet
  /\ ValidatorQuiet
  /\ RegQuiet
  /\ CQQuiet
  /\ StackQuiet
  /\ BPQuiet
  /\ config \in { NewCircuitBreakerClient(c) : c \in InputConfigs }
  /\ now = 0
  /\ breakers = [s \in Servers |-> NoBreaker]
  /\ call = [c \in Callers |-> Idle]
  /\ lastReturn = NoReturn
  /\ ncalls = 0
  /\ queried = {}
  /\ invoked = 0
  /\ sizeArg = 1 /\ size = 1 /\ running = FALSE /\ failing = {}
  /\ ex = <<>> /\ ret = <<>> /\ nexec = 0

\* Query / QueryMultiple up to the point where the downstream querier is
\* invoked inside breaker.Execute, or to the return when the breaker rejects.
ExecuteBegin(c, s) ==
  /\ call[c].pc = "idle"
  /\ ncalls < MaxCalls
  /\ ncalls' = ncalls + 1
  /\ queried' = queried \cup {s}
  /\ LET bs == getBreakerForServer(breakers, config, s, now)
         r  == beforeRequest(bs[s], now)
     IN /\ breakers' = SetBreaker(bs, s, r.breaker)
        /\ IF r.err = "nil"
             THEN /\ call' = [call EXCEPT ![c] =
                       [pc |-> "inflight", server |-> s,
                        generation |-> r.generation,
                        probe |-> (r.breaker.state = StateHalfOpen)]]
                  /\ invoked' = invoked + 1
                  /\ lastReturn' = lastReturn
             ELSE /\ call' = call
                  /\ invoked' = invoked
                  /\ lastReturn' = [server |-> s,
                                    value |-> WrapError(r.err)]
  /\ UNCHANGED <<config, now, notCB>>

Query(c, s) == ExecuteBegin(c, s)

QueryMultiple(c, s) == ExecuteBegin(c, s)

\* The downstream querier returns (ok or an error); afterRequest; the return.
QuerierReturns(c, ok) ==
  /\ call[c].pc = "inflight"
  /\ LET s == call[c].server IN
       /\ breakers' = SetBreaker(breakers, s,
                        afterRequest(breakers[s], call[c].generation, ok, now))
       /\ lastReturn' = [server |-> s,
                         value |-> IF ok THEN "OK" ELSE "QueryError"]
  /\ call' = [call EXCEPT ![c] = Idle]
  /\ UNCHANGED <<config, now, ncalls, queried, invoked, notCB>>

\* CircuitBreakerClient.GetState: breaker.State() runs the lazy expiry check.
GetStateCall(s) ==
  /\ breakers[s] # NoBreaker
  /\ breakers' = [breakers EXCEPT ![s] = currentState(@, now)]
  /\ breakers' # breakers
  /\ UNCHANGED <<config, now, call, lastReturn, ncalls, queried, invoked, notCB>>

Tick ==
  /\ now < MaxTime
  /\ now' = now + 1
  /\ UNCHANGED <<config, breakers, call, lastReturn, ncalls, queried, invoked, notCB>>

CBNext ==
  \/ \E c \in Callers, s \in Servers : Query(c, s)
  \/ \E c \in Callers, s \in Servers : QueryMultiple(c, s)
  \/ \E c \in Callers, ok \in BOOLEAN : QuerierReturns(c, ok)
  \/ \E s \in Servers : GetStateCall(s)
  \/ Tick

SpecCB == CBInit /\ [][CBNext]_vars

(***************************************************************************)
(* WorkerPool (internal/ntp/workerpool.go).                                *)
(***************************************************************************)
Executors == {"e1", "e2"}

\* The size arguments NewWorkerPool is called with.
SizeArgs == {-1, 0, 2}

\* The sets of servers whose QueryMultiple fails.
FailingSets == {{}, {"s1"}}

\* The server lists Execute is called with.
ServerLists == UNION { [1..n -> Servers] : n \in 0..MaxServers }

Min(a, b) == IF a < b THEN a ELSE b

\* NewWorkerPool: a size of 0 or less becomes 1.
NewWorkerPool(n) == IF n <= 0 THEN 1 ELSE n

\* if wp.running
IsRunningNever(r) == FALSE

IsRunning(r) == r

\* workerCount: wp.size, capped by the number of servers.
WorkerCountUncapped(sz, n) == sz

WorkerCount(sz, n) == IF sz > n THEN n ELSE sz

\* processJob: the JobResult of QueryMultiple for a server.
ProcessJobAlwaysOk(server, bad) == [Server |-> server, Error |-> "nil"]

ProcessJob(server, bad) ==
  [Server |-> server, Error |-> IF server \in bad THEN "QueryError" ELSE "nil"]

\* The capacity of resultsCh: make(chan JobResult, len(servers)).
ResultsChCapOneShort(servers) == Len(servers) - 1

ResultsChCap(servers) == Len(servers)

\* The JobResult a worker reports for a job it finds cancelled.
CancelledResult(server) == [Server |-> server, Error |-> "Cancelled"]

Nil == [nil |-> TRUE]

EmptyMap == [s \in {} |-> Nil]

\* results[result.Server] = result
PutResult(m, r) ==
  [s \in (DOMAIN m) \cup {r.Server} |-> IF s = r.Server THEN r ELSE m[s]]

Ranging == [st |-> "ranging", job |-> 0]

WorkerDone == [st |-> "done", job |-> 0]

IdleEx ==
  [pc |-> "idle", servers |-> <<>>, next |-> 1, jobs |-> <<>>,
   jobsClosed |-> FALSE, resultsCh |-> <<>>, resultsClosed |-> FALSE,
   workers |-> <<>>, results |-> EmptyMap, cancelled |-> FALSE, started |-> {},
   reported |-> {}]

NoRet == [caller |-> "none", err |-> "none", results |-> Nil, servers |-> <<>>,
          cancelled |-> FALSE, dispatched |-> 0, started |-> {}, reported |-> {}]

\* What an Execute call returned, with the call's server list, whether its
\* context was cancelled, the number of jobs sent to jobsCh, the jobs whose
\* processJob had started and the jobs a worker reported as cancelled.
Returned(e, x, err, results) ==
  [caller |-> e, err |-> err, results |-> results, servers |-> x.servers,
   cancelled |-> x.cancelled, dispatched |-> x.next - 1, started |-> x.started,
   reported |-> x.reported]

InProgress(e) == ex[e].pc # "idle"

AllWorkersDone(x) == \A w \in DOMAIN x.workers : x.workers[w].st = "done"

WPInit ==
  /\ RLQuiet
  /\ DNSQuiet
  /\ ScrapeQuiet
  /\ ColQuiet
  /\ SamplerQuiet
  /\ PoolQuiet
  /\ QAQuiet
  /\ ValidatorQuiet
  /\ RegQuiet
  /\ CQQuiet
  /\ StackQuiet
  /\ BPQuiet
  /\ sizeArg \in SizeArgs
  /\ size = NewWorkerPool(sizeArg)
  /\ running = FALSE
  /\ failing \in FailingSets
  /\ ex = [e \in Executors |-> IdleEx]
  /\ ret = NoRet
  /\ nexec = 0
  /\ config = DefaultCircuitBreakerConfig
  /\ now = 0
  /\ breakers = [s \in Servers |-> NoBreaker]
  /\ call = [c \in Callers |-> Idle]
  /\ lastReturn = NoReturn
  /\ ncalls = 0
  /\ queried = {}
  /\ invoked = 0

\* Execute up to the start of the workers: the empty-list check, the running
\* flag under the mutex, the channels and the worker goroutines.
Execute(e, servers) ==
  /\ ex[e].pc = "idle"
  /\ nexec < MaxExecs
  /\ nexec' = nexec + 1
  /\ IF Len(servers) = 0
       THEN /\ ret' = (
                 Returned(e, [IdleEx EXCEPT !.servers = servers], "NoServers", Nil))
            /\ UNCHANGED <<running, ex>>
       ELSE IF IsRunning(running)
         THEN /\ ret' = (
                   Returned(e, [IdleEx EXCEPT !.servers = servers], "AlreadyRunning", Nil))
              /\ UNCHANGED <<running, ex>>
         ELSE /\ running' = TRUE
              /\ ex' = [ex EXCEPT ![e] =
                   [IdleEx EXCEPT
                      !.pc = "submit", !.servers = servers,
                      !.workers = [w \in 1..WorkerCount(size, Len(servers)) |-> Ranging]]]
              /\ ret' = NoRet
  /\ UNCHANGED <<sizeArg, size, failing, notWP>>

\* The submit loop's select takes the send: jobsCh has room for every job.
\* After the last job the loop ends and jobsCh is closed.
SubmitJob(e) ==
  /\ ex[e].pc = "submit"
  /\ LET x == ex[e]
         last == x.next = Len(x.servers)
     IN ex' = [ex EXCEPT ![e] =
          [x EXCEPT !.jobs = Append(@, x.next), !.next = @ + 1,
                    !.jobsClosed = last,
                    !.pc = IF last THEN "collect" ELSE "submit"]]
  /\ UNCHANGED <<sizeArg, size, running, failing, ret, nexec, notWP>>

\* The submit loop's select takes ctx.Done(): jobsCh is closed and Execute
\* waits for the workers.
SubmitCancelled(e) ==
  /\ ex[e].pc = "submit"
  /\ ex[e].cancelled
  /\ ex' = [ex EXCEPT ![e] = [@ EXCEPT !.jobsClosed = TRUE, !.pc = "waitWorkers"]]
  /\ UNCHANGED <<sizeArg, size, running, failing, ret, nexec, notWP>>

\* wg.Wait() of the cancelled submit loop returns: Execute returns
\* (nil, ctx.Err()) and the deferred function clears the running flag.
ReturnCancelled(e) ==
  /\ ex[e].pc = "waitWorkers"
  /\ AllWorkersDone(ex[e])
  /\ ret' = Returned(e, ex[e], "Cancelled", Nil)
  /\ ex' = [ex EXCEPT ![e] = IdleEx]
  /\ running' = FALSE
  /\ UNCHANGED <<sizeArg, size, failing, nexec, notWP>>

\* A worker receives a job: with the context done it reports the
\* cancellation error for that job and returns, otherwise it starts processJob.
WorkerTakesJob(e, w) ==
  /\ ex[e].pc # "idle"
  /\ w \in DOMAIN ex[e].workers
  /\ ex[e].workers[w].st = "ranging"
  /\ ex[e].jobs # <<>>
  /\ ex[e].cancelled => Len(ex[e].resultsCh) < ResultsChCap(ex[e].servers)
  /\ LET x == ex[e]
         j == Head(x.jobs)
     IN ex' = [ex EXCEPT ![e] =
          IF x.cancelled
            THEN [x EXCEPT !.jobs = Tail(@),
                           !.resultsCh = Append(@, CancelledResult(x.servers[j])),
                           !.reported = @ \cup {j},
                           !.workers[w] = WorkerDone]
            ELSE [x EXCEPT !.jobs = Tail(@),
                           !.workers[w] = [st |-> "processing", job |-> j],
                           !.started = @ \cup {j}]]
  /\ UNCHANGED <<sizeArg, size, running, failing, ret, nexec, notWP>>

\* A worker finds jobsCh closed and drained: the range loop ends.
WorkerExits(e, w) ==
  /\ ex[e].pc # "idle"
  /\ w \in DOMAIN ex[e].workers
  /\ ex[e].workers[w].st = "ranging"
  /\ ex[e].jobs = <<>>
  /\ ex[e].jobsClosed
  /\ ex' = [ex EXCEPT ![e].workers[w] = WorkerDone]
  /\ UNCHANGED <<sizeArg, size, running, failing, ret, nexec, notWP>>

\* processJob returns and the select sends the result (the result channel has
\* room for one result per job); the worker goes on with the next job.
WorkerSendsResult(e, w) ==
  /\ ex[e].pc # "idle"
  /\ w \in DOMAIN ex[e].workers
  /\ ex[e].workers[w].st = "processing"
  /\ Len(ex[e].resultsCh) < ResultsChCap(ex[e].servers)
  /\ LET x == ex[e]
         r == ProcessJob(x.servers[x.workers[w].job], failing)
     IN ex' = [ex EXCEPT ![e] =
          [x EXCEPT !.resultsCh = Append(@, r), !.workers[w] = Ranging]]
  /\ UNCHANGED <<sizeArg, size, running, failing, ret, nexec, notWP>>

\* processJob returns and the select takes ctx.Done(): the result is dropped
\* and the worker returns.
WorkerDropsResult(e, w) ==
  /\ ex[e].pc # "idle"
  /\ w \in DOMAIN ex[e].workers
  /\ ex[e].workers[w].st = "processing"
  /\ ex[e].cancelled
  /\ ex' = [ex EXCEPT ![e].workers[w] = WorkerDone]
  /\ UNCHANGED <<sizeArg, size, running, failing, ret, nexec, notWP>>

\* The goroutine started after the submit loop: wg.Wait(); close(resultsCh).
CloseResults(e) ==
  /\ ex[e].pc = "collect"
  /\ ~ex[e].resultsClosed
  /\ AllWorkersDone(ex[e])
  /\ ex' = [ex EXCEPT ![e].resultsClosed = TRUE]
  /\ UNCHANGED <<sizeArg, size, running, failing, ret, nexec, notWP>>

\* for result := range resultsCh { results[result.Server] = result }
CollectResult(e) ==
  /\ ex[e].pc = "collect"
  /\ ex[e].resultsCh # <<>>
  /\ ex' = [ex EXCEPT ![e] =
       [@ EXCEPT !.results = PutResult(@, Head(ex[e].resultsCh)),
                 !.resultsCh = Tail(@)]]
  /\ UNCHANGED <<sizeArg, size, running, failing, ret, nexec, notWP>>

\* resultsCh is closed and drained: Execute returns the map, or an error when
\* it is empty; the deferred function clears the running flag.
ReturnResults(e) ==
  /\ ex[e].pc = "collect"
  /\ ex[e].resultsCh = <<>>
  /\ ex[e].resultsClosed
  /\ ret' = IF DOMAIN ex[e].results = {}
              THEN Returned(e, ex[e], "NoResults", Nil)
              ELSE Returned(e, ex[e], "nil", ex[e].results)
  /\ ex' = [ex EXCEPT ![e] = IdleEx]
  /\ running' = FALSE
  /\ UNCHANGED <<sizeArg, size, failing, nexec, notWP>>

\* The context passed to Execute is cancelled (or its deadline passes).
Cancel(e) ==
  /\ ex[e].pc # "idle"
  /\ ~ex[e].cancelled
  /\ ex' = [ex EXCEPT ![e].cancelled = TRUE]
  /\ UNCHANGED <<sizeArg, size, running, failing, ret, nexec, notWP>>

WPNext ==
  \/ \E e \in Executors, servers \in ServerLists : Execute(e, servers)
  \/ \E e \in Executors : SubmitJob(e)
  \/ \E e \in Executors : SubmitCancelled(e)
  \/ \E e \in Executors : ReturnCancelled(e)
  \/ \E e \in Executors, w \in 1..(MaxServers + 1) : WorkerTakesJob(e, w)
  \/ \E e \in Executors, w \in 1..(MaxServers + 1) : WorkerExits(e, w)
  \/ \E e \in Executors, w \in 1..(MaxServers + 1) : WorkerSendsResult(e, w)
  \/ \E e \in Executors, w \in 1..(MaxServers + 1) : WorkerDropsResult(e, w)
  \/ \E e \in Executors : CloseResults(e)
  \/ \E e \in Executors : CollectResult(e)
  \/ \E e \in Executors : ReturnResults(e)
  \/ \E e \in Executors : Cancel(e)

SpecWP == WPInit /\ [][WPNext]_vars

\* Every goroutine that can run does run, and every QueryMultiple a worker
\* started returns.
SpecWPFair ==
  /\ SpecWP
  /\ \A e \in Executors :
       /\ WF_vars(SubmitJob(e) \/ SubmitCancelled(e))
       /\ WF_vars(ReturnCancelled(e))
       /\ WF_vars(CloseResults(e))
       /\ WF_vars(CollectResult(e))
       /\ WF_vars(ReturnResults(e))
       /\ \A w \in 1..(MaxServers + 1) :
            /\ WF_vars(WorkerTakesJob(e, w) \/ WorkerExits(e, w))
            /\ WF_vars(WorkerSendsResult(e, w) \/ WorkerDropsResult(e, w))


(***************************************************************************)
(* Claims about the circuit breaker client (checked under SpecCB).         *)
(***************************************************************************)
Exists(s) == breakers[s] # NoBreaker

\* The breaker of s is Open and its timeout has not elapsed.
IsOpen(s) ==
  Exists(s) /\ breakers[s].state = StateOpen /\ ~(breakers[s].expiry < now)

\* The breaker of s is Open and its timeout has elapsed.
OpenElapsed(s) ==
  Exists(s) /\ breakers[s].state = StateOpen /\ breakers[s].expiry < now

\* The breaker of s is Closed and its interval has not expired.
ClosedInInterval(s) ==
  Exists(s) /\ breakers[s].state = StateClosed /\ ~(breakers[s].expiry < now)

\* The step is a Query or a QueryMultiple call of goroutine c for server s.
CallStep(c, s) ==
  /\ call[c].pc = "idle" /\ ncalls' = ncalls + 1
  /\ (Query(c, s) \/ QueryMultiple(c, s))

\* The step is the return of c's downstream query for server s.
ReturnStep(c, s, ok) ==
  /\ call[c].pc = "inflight" /\ call[c].server = s /\ call'[c].pc = "idle"
  /\ QuerierReturns(c, ok)

\* C1: while the breaker for a target is Open and its timeout has not
\* elapsed, every Query or QueryMultiple call for that target returns the
\* circuit-open error, and the wrapped querier is not invoked for that call.
C1_OpenRejectsWithoutQuery ==
  [][\A c \in Callers, s \in Servers :
       (IsOpen(s) /\ CallStep(c, s)) =>
          /\ lastReturn' = [server |-> s, value |-> "CircuitOpen"]
          /\ invoked' = invoked
          /\ call'[c].pc = "idle"
          /\ breakers'[s] = breakers[s]]_vars

C1_Witness ==
  \E s \in Servers :
    /\ IsOpen(s)
    /\ lastReturn = [server |-> s, value |-> "CircuitOpen"]
    /\ invoked < ncalls

\* C2 as stated: a Closed breaker whose counts show at least 3 requests and
\* total_failures / requests >= failure_threshold has moved to Open (stated
\* for a breaker none of whose requests is still in flight).
C2_Original ==
  \A s \in Servers :
    (/\ ClosedInInterval(s)
     /\ \A c \in Callers : call[c].server # s)
    => ~ (/\ breakers[s].counts.Requests >= MinTripRequests
          /\ breakers[s].counts.TotalFailures * 100
               >= config.ThresholdPct * breakers[s].counts.Requests)

\* The failure of c's request is counted by the Closed breaker of s and, once
\* counted, the counts have at least 3 requests and a failure ratio at or
\* above the threshold.
TripsOnFailure(c, s) ==
  /\ ClosedInInterval(s)
  /\ call[c].generation = breakers[s].generation
  /\ breakers[s].counts.Requests >= MinTripRequests
  /\ (breakers[s].counts.TotalFailures + 1) * 100
       >= config.ThresholdPct * breakers[s].counts.Requests

\* C2 (amended): the trip condition is evaluated when a request fails in the
\* Closed state.  A Closed breaker moves to Open exactly in the step in which
\* a failure is counted and the counts then have at least 3 requests and
\* total_failures / requests >= failure_threshold; in every other step (a
\* success, a call, fewer than 3 requests, a lower ratio) it stays Closed.
C2_TripOnFailure ==
  [][\A s \in Servers :
       (Exists(s) /\ breakers[s].state = StateClosed) =>
          /\ breakers'[s].state \in {StateClosed, StateOpen}
          /\ (breakers'[s].state = StateOpen) <=>
               (\E c \in Callers : ReturnStep(c, s, FALSE) /\ TripsOnFailure(c, s))]_vars

C2_Witness ==
  \E s \in Servers :
    /\ IsOpen(s)
    /\ breakers[s].generation = 2
    /\ lastReturn = [server |-> s, value |-> "QueryError"]
    /\ ncalls = 3

\* c's request is a probe admitted in the current HalfOpen period of s.
CurrentProbe(c, s) ==
  /\ call[c].pc = "inflight" /\ call[c].server = s
  /\ breakers[s].state = StateHalfOpen
  /\ call[c].generation = breakers[s].generation

C4_OpenUntilTimeout ==
  [][/\ \A s \in Servers :
          (Exists(s) /\ breakers[s].state # StateOpen
           /\ breakers'[s].state = StateOpen)
          => breakers'[s].expiry = now + config.Timeout
     /\ \A s \in Servers :
          IsOpen(s) => breakers'[s] = breakers[s]
     /\ \A s \in Servers :
          (OpenElapsed(s) /\ breakers'[s] # breakers[s])
          => breakers'[s].state = StateHalfOpen
     /\ \A c \in Callers, s \in Servers :
          (OpenElapsed(s) /\ CallStep(c, s))
          => /\ call'[c].pc = "inflight" /\ call'[c].probe
             /\ invoked' = invoked + 1
             /\ lastReturn' = lastReturn
             /\ breakers'[s].state = StateHalfOpen]_vars

C4_Witness ==
  \E c \in Callers, s \in Servers :
    /\ CurrentProbe(c, s) /\ call[c].probe
    /\ breakers[s].counts.Requests = 1
    /\ lastReturn.value = "CircuitOpen"

\* C5: each target has its own breaker: a call for one target, and the
\* outcome of a call for one target, leave the breaker of every other target
\* as it was; and a target that has never been queried is reported Closed with
\* zeroed counters.
C5_IndependentBreakers ==
  [][/\ (breakers' # breakers) =>
          \A c \in Callers, s \in Servers :
            (CallStep(c, s) \/ \E ok \in BOOLEAN : ReturnStep(c, s, ok))
            => \A o \in Servers \ {s} : breakers'[o] = breakers[o]
     /\ \A s \in Servers \ queried :
          /\ GetState(breakers, s, now) = StateClosed
          /\ GetCounts(breakers, s) = ZeroCounts
     /\ \A s \in Servers \ queried' :
          /\ GetState(breakers', s, now') = StateClosed
          /\ GetCounts(breakers', s) = ZeroCounts]_vars

\* One target's breaker is Open while another target was never queried.
C5_Witness ==
  \E s \in Servers, o \in Servers :
    /\ IsOpen(s)
    /\ o \notin queried
    /\ GetState(breakers, o, now) = StateClosed

\* C6: the counters of a Closed breaker are cleared when its Interval has
\* expired, before anything else is counted, so a trip is decided on the
\* outcomes of a single interval only.
C6_IntervalResets ==
  [][/\ \A s \in Servers :
          (Exists(s)' /\ breakers'[s].state = StateClosed)
          => /\ breakers'[s].expiry # ZeroTime
             /\ breakers'[s].expiry <= now + config.Interval
     /\ \A s \in Servers :
          (/\ Exists(s) /\ breakers[s].state = StateClosed
           /\ breakers[s].expiry < now
           /\ breakers'[s] # breakers[s])
          => /\ breakers'[s].state = StateClosed
             /\ breakers'[s].generation = breakers[s].generation + 1
             /\ breakers'[s].expiry = now + config.Interval
             /\ breakers'[s].counts.TotalFailures = 0
             /\ breakers'[s].counts.ConsecutiveFailures = 0
             /\ breakers'[s].counts.Requests <= 1
     /\ \A s \in Servers :
          (/\ Exists(s) /\ breakers[s].state = StateClosed
           /\ breakers'[s].state = StateOpen)
          => ~(breakers[s].expiry < now)]_vars

\* A Closed breaker that counted two failures in an interval that has expired
\* stays Closed on a third failure, with fresh counts.
C6_Witness ==
  \E s \in Servers :
    /\ ClosedInInterval(s)
    /\ breakers[s].generation = 2
    /\ breakers[s].counts.Requests = 1
    /\ breakers[s].counts.TotalFailures = 1
    /\ ncalls = 3 /\ invoked = 3
    /\ queried = {s}

(***************************************************************************)
(* Claims about the worker pool (checked under SpecWP).                    *)
(***************************************************************************)
Range(f) == { f[i] : i \in DOMAIN f }

Processing(e) == { w \in DOMAIN ex[e].workers : ex[e].workers[w].st = "processing" }

\* The size the pool works with for the size it was constructed with.
EffectiveSize == IF sizeArg <= 0 THEN 1 ELSE sizeArg

\* A step that is a call of Execute (the only action that counts a call in
\* nexec) made while an Execute on the pool is in progress.
ExecuteWhileBusy ==
  /\ nexec' = nexec + 1
  /\ \E f \in Executors : InProgress(f)

\* C7 as stated: an Execute called while another Execute on the pool is in
\* progress fails with the already-running error and starts no workers, and
\* at most one Execute is in progress.
C7_Original ==
  [][/\ ExecuteWhileBusy
          => /\ ret'.caller \in Executors /\ ~InProgress(ret'.caller)
             /\ ret'.err = "AlreadyRunning"
             /\ ex' = ex
     /\ \A e \in Executors, f \in Executors :
          (InProgress(e)' /\ InProgress(f)') => e = f]_vars

\* C7 (amended): an Execute with a non-empty server list called while another
\* Execute on the pool is in progress fails with the already-running error
\* and starts no workers (with an empty list it fails with the no-servers
\* error, which is checked first); at most one Execute is in progress.
C7_OneExecuteAtATime ==
  [][/\ ExecuteWhileBusy
          => /\ ret'.caller \in Executors /\ ~InProgress(ret'.caller)
             /\ ret'.err = IF Len(ret'.servers) = 0 THEN "NoServers"
                                                    ELSE "AlreadyRunning"
             /\ ret'.results = Nil
             /\ ex' = ex
     /\ \A e \in Executors, f \in Executors :
          (InProgress(e)' /\ InProgress(f)') => e = f
     /\ \A e \in Executors : InProgress(e)' => running']_vars

C7_Witness ==
  /\ ret.err = "AlreadyRunning"
  /\ \E f \in Executors \ {ret.caller} :
       InProgress(f) /\ Processing(f) # {}

\* C8: at most `size` QueryMultiple calls are in progress at the same time,
\* where a configured size of 0 or less counts as 1, and an Execute starts no
\* more than min(size, number of servers) workers.
C8_BoundedParallelism ==
  /\ size = EffectiveSize
  /\ Cardinality(UNION { {<<e, w>> : w \in Processing(e)} : e \in Executors })
       <= EffectiveSize
  /\ \A e \in Executors :
       Cardinality(DOMAIN ex[e].workers)
         <= Min(EffectiveSize, Len(ex[e].servers))

\* A pool constructed with size 0 or less works on one job while another waits.
C8_Witness ==
  \E e \in Executors :
    /\ sizeArg <= 0
    /\ Cardinality(Processing(e)) = 1
    /\ ex[e].jobs # <<>>

\* C9 as stated (for the jobs that were sent to the workers): when Execute
\* returns after its context was cancelled, a worker has reported a result
\* carrying the cancellation error for every job that had not been started.
C9_Claim ==
  (ret.err \notin {"none", "NoServers", "AlreadyRunning"} /\ ret.cancelled)
  => \A j \in (1..ret.dispatched) \ ret.started : j \in ret.reported

\* C10: an Execute whose context is not cancelled returns no error and exactly
\* one result per server of the list, keyed by the server's name; the result
\* of a server whose QueryMultiple fails carries that error.
C10_OneResultPerServer ==
  (ret.err \notin {"none", "NoServers", "AlreadyRunning"} /\ ~ret.cancelled)
  => /\ ret.err = "nil"
     /\ ret.results # Nil
     /\ DOMAIN ret.results = Range(ret.servers)
     /\ \A s \in DOMAIN ret.results :
          /\ ret.results[s].Server = s
          /\ ret.results[s].Error = IF s \in failing THEN "QueryError" ELSE "nil"

C10_Witness ==
  /\ ret.err = "nil" /\ ~ret.cancelled
  /\ Len(ret.servers) = 2
  /\ \E s \in DOMAIN ret.results, o \in DOMAIN ret.results :
       ret.results[s].Error = "QueryError" /\ ret.results[o].Error = "nil"

(***************************************************************************)
(* The circuit breaker client and the worker pool at rest, for the         *)
(* specifications of the other components.                                 *)
(***************************************************************************)
CBQuiet ==
  /\ config = DefaultCircuitBreakerConfig
  /\ now = 0
  /\ breakers = [s \in Servers |-> NoBreaker]
  /\ call = [c \in Callers |-> Idle]
  /\ lastReturn = NoReturn
  /\ ncalls = 0
  /\ queried = {}
  /\ invoked = 0

WPQuiet ==
  /\ sizeArg = 1 /\ size = 1 /\ running = FALSE /\ failing = {}
  /\ ex = <<>> /\ ret = <<>> /\ nexec = 0

(***************************************************************************)
(* Rate limiter (src/unnamed/part_013) over golang.org/x/time/rate, and    *)
(* the rate-limited entry of Client.Query (src/unnamed/part_010).          *)
(*                                                                         *)
(* A limiter's tokens are counted in halves (TokenScale halves per token)  *)
(* and its limit in half tokens per time unit, so that a limit of 1 is one *)
(* token every two units, a limit of 2 is one token per unit, and every    *)
(* waiting time is a whole number of units.                                *)
(***************************************************************************)
MaxRLTime == 2
MaxRLCalls == 3

TokenScale == 2
InfDuration == 99
NoDeadline == -1
NoAct == -1

RLCallers == {"r1", "r2"}

NoLimiter == [absent |-> TRUE]

\* rate.NewLimiter(r, b): a full bucket.
NewLimiter(limit, burst) ==
  [limit |-> limit, burst |-> burst, tokens |-> burst * TokenScale,
   last |-> 0, lastEvent |-> 0]

\* Limiter.advance: the tokens at time t, capped at the burst.
advance(lim, t) ==
  Min(lim.burst * TokenScale, lim.tokens + (t - lim.last) * lim.limit)

\* Limit.durationFromTokens and Limit.tokensFromDuration.
durationFromTokens(limit, tokens) == (tokens + limit - 1) \div limit

tokensFromDuration(limit, d) == d * limit

\* Limiter.reserveN(t, 1, maxFutureReserve): takes one token, now or in the
\* future, unless that needs a wait longer than maxFutureReserve.
reserveN(lim, t, maxFutureReserve) ==
  LET tokens == advance(lim, t) - TokenScale
      waitDuration == IF tokens < 0 THEN durationFromTokens(lim.limit, -tokens)
                                    ELSE 0
      ok == 1 <= lim.burst /\ waitDuration <= maxFutureReserve
  IN [ok |-> ok, timeToAct |-> t + waitDuration,
      lim |-> IF ok THEN [lim EXCEPT !.last = t, !.tokens = tokens,
                                     !.lastEvent = t + waitDuration]
                    ELSE lim]

\* Reservation.CancelAt(t) of a one-token reservation due at timeToAct: gives
\* back what later reservations have not already built on.
CancelAt(lim, timeToAct, t) ==
  IF timeToAct < t THEN lim
  ELSE LET restoreTokens ==
             TokenScale - tokensFromDuration(lim.limit, lim.lastEvent - timeToAct)
           prevEvent == timeToAct + durationFromTokens(lim.limit, -TokenScale)
       IN IF restoreTokens <= 0 THEN lim
          ELSE [lim EXCEPT
                  !.last = t,
                  !.tokens = Min(lim.burst * TokenScale,
                                 advance(lim, t) + restoreTokens),
                  !.lastEvent = IF timeToAct = lim.lastEvent /\ prevEvent >= t
                                  THEN prevEvent ELSE lim.lastEvent]

\* Limiter.Wait(ctx) up to the point where it returns or starts its timer.
wait(lim, t, ctxDone, deadline) ==
  IF 1 > lim.burst THEN [err |-> "ExceedsBurst", timeToAct |-> NoAct, lim |-> lim]
  ELSE IF ctxDone THEN [err |-> "CtxDone", timeToAct |-> NoAct, lim |-> lim]
  ELSE LET waitLimit == IF deadline = NoDeadline THEN InfDuration ELSE deadline - t
           r == reserveN(lim, t, waitLimit)
       IN IF r.ok THEN [err |-> "nil", timeToAct |-> r.timeToAct, lim |-> r.lim]
          ELSE [err |-> "WouldExceedDeadline", timeToAct |-> NoAct, lim |-> lim]

\* NewRateLimiter: the global limiter, with the global rate and the burst size.
NewGlobalLimiterLargerBurst(cfg) == NewLimiter(cfg.globalRate, cfg.burstSize + 1)

NewGlobalLimiter(cfg) == NewLimiter(cfg.globalRate, cfg.burstSize)

\* getLimiterForServer: the limiter of the server, created full on first use
\* with the per-server rate and the burst size.
getLimiterForServer(lims, cfg, s) ==
  IF lims[s] # NoLimiter THEN lims
  ELSE [lims EXCEPT ![s] = NewLimiter(cfg.perServerRate, cfg.burstSize)]

\* The arguments NewRateLimiter is called with.
RateLimiterArgs ==
  { [globalRate |-> 2, perServerRate |-> 1, burstSize |-> b] : b \in 0..2 }
    \cup { [globalRate |-> 1, perServerRate |-> 2, burstSize |-> 1] }

\* The contexts a query is made with: not cancellable in time, already
\* cancelled, or with a deadline one unit ahead.
ContextsAt(t) ==
  { [cancelled |-> FALSE, deadline |-> NoDeadline],
    [cancelled |-> TRUE, deadline |-> NoDeadline],
    [cancelled |-> FALSE, deadline |-> t + 1] }

RLIdle ==
  [pc |-> "idle", server |-> "none", cancelled |-> FALSE, deadline |-> NoDeadline,
   gAct |-> NoAct, sAct |-> NoAct, doneFirst |-> FALSE]

\* What the last call that returned gave back: "true" or "false" from Allow;
\* from Query "exchanged" when the exchange was performed, else the limiter
\* whose Wait failed and the error it failed with.
RLNoReturn == [value |-> "none", err |-> "nil"]

RLReturned(value, err) == [value |-> value, err |-> err]

RLErrors == {"GlobalRateLimit", "PerServerRateLimit"}

\* ctx.Done() is ready: the context was cancelled or its deadline has passed.
CtxDone(w, t) == w.cancelled \/ (w.deadline # NoDeadline /\ t >= w.deadline)

\* Both reservations of the call are made and due.
TokensObtainedAt(w, t) ==
  /\ w.gAct # NoAct /\ t >= w.gAct
  /\ w.sAct # NoAct /\ t >= w.sAct

\* RateLimiter.Wait after rl.global.Wait returned nil: the per-server limiter
\* is waited for next.
AfterGlobalSkipsServer(w) == [w EXCEPT !.pc = "granted"]

AfterGlobal(w) == [w EXCEPT !.pc = "gotGlobal"]

RLInit ==
  /\ CBQuiet
  /\ WPQuiet
  /\ DNSQuiet
  /\ ScrapeQuiet
  /\ ColQuiet
  /\ SamplerQuiet
  /\ PoolQuiet
  /\ QAQuiet
  /\ ValidatorQuiet
  /\ RegQuiet
  /\ CQQuiet
  /\ StackQuiet
  /\ BPQuiet
  /\ rlConfig \in RateLimiterArgs
  /\ rlNow = 0
  /\ global = NewGlobalLimiter(rlConfig)
  /\ perServer = [s \in Servers |-> NoLimiter]
  /\ waiter = [c \in RLCallers |-> RLIdle]
  /\ rlRet = RLNoReturn
  /\ acquired = [s \in Servers |-> 0]
  /\ exchanges = 0
  /\ rlCalls = 0

AllowRefundsGlobal(c, s) ==
  /\ waiter[c].pc = "idle"
  /\ rlCalls < MaxRLCalls
  /\ rlCalls' = rlCalls + 1
  /\ LET g == reserveN(global, rlNow, 0)
     IN IF ~g.ok
          THEN /\ rlRet' = RLReturned("false", "nil")
               /\ UNCHANGED <<global, perServer, acquired>>
          ELSE LET lims == getLimiterForServer(perServer, rlConfig, s)
                   p == reserveN(lims[s], rlNow, 0)
               IN /\ global' = IF p.ok THEN g.lim ELSE global
                  /\ perServer' = [lims EXCEPT ![s] = p.lim]
                  /\ rlRet' = RLReturned(IF p.ok THEN "true" ELSE "false", "nil")
                  /\ acquired' = IF p.ok THEN [acquired EXCEPT ![s] = @ + 1]
                                         ELSE acquired
  /\ UNCHANGED <<rlConfig, rlNow, waiter, exchanges, notRL>>

\* RateLimiter.Allow(server).
Allow(c, s) ==
  /\ waiter[c].pc = "idle"
  /\ rlCalls < MaxRLCalls
  /\ rlCalls' = rlCalls + 1
  /\ LET g == reserveN(global, rlNow, 0)
     IN IF ~g.ok
          THEN /\ rlRet' = RLReturned("false", "nil")
               /\ UNCHANGED <<global, perServer, acquired>>
          ELSE LET lims == getLimiterForServer(perServer, rlConfig, s)
                   p == reserveN(lims[s], rlNow, 0)
               IN /\ global' = g.lim
                  /\ perServer' = [lims EXCEPT ![s] = p.lim]
                  /\ rlRet' = RLReturned(IF p.ok THEN "true" ELSE "false", "nil")
                  /\ acquired' = IF p.ok THEN [acquired EXCEPT ![s] = @ + 1]
                                         ELSE acquired
  /\ UNCHANGED <<rlConfig, rlNow, waiter, exchanges, notRL>>

\* Client.Query with a rate limiter, up to the return of rl.global.Wait or
\* the start of its timer.
QueryBegin(c, s, ctx) ==
  /\ waiter[c].pc = "idle"
  /\ rlCalls < MaxRLCalls
  /\ rlCalls' = rlCalls + 1
  /\ LET w == [RLIdle EXCEPT !.server = s, !.cancelled = ctx.cancelled,
                             !.deadline = ctx.deadline,
                             !.doneFirst = ctx.cancelled]
         r == wait(global, rlNow, CtxDone(w, rlNow), w.deadline)
     IN IF r.err # "nil"
          THEN /\ rlRet' = RLReturned("GlobalRateLimit", r.err)
               /\ UNCHANGED <<global, waiter>>
          ELSE /\ global' = r.lim
               /\ waiter' = [waiter EXCEPT ![c] =
                    IF r.timeToAct = rlNow
                      THEN AfterGlobal([w EXCEPT !.gAct = r.timeToAct])
                      ELSE [w EXCEPT !.pc = "globalSleep", !.gAct = r.timeToAct]]
               /\ UNCHANGED rlRet
  /\ UNCHANGED <<rlConfig, rlNow, perServer, acquired, exchanges, notRL>>

\* The timer of rl.global.Wait fires.
GlobalTimer(c) ==
  /\ waiter[c].pc = "globalSleep"
  /\ rlNow >= waiter[c].gAct
  /\ waiter' = [waiter EXCEPT ![c] = AfterGlobal(@)]
  /\ UNCHANGED <<rlConfig, rlNow, global, perServer, rlRet, acquired, exchanges,
                 rlCalls, notRL>>

\* rl.global.Wait sees ctx.Done() while it sleeps: the reservation is
\* cancelled and Query returns the error.
GlobalCtxDone(c) ==
  /\ waiter[c].pc = "globalSleep"
  /\ CtxDone(waiter[c], rlNow)
  /\ global' = CancelAt(global, waiter[c].gAct, rlNow)
  /\ rlRet' = RLReturned("GlobalRateLimit", "CtxDone")
  /\ waiter' = [waiter EXCEPT ![c] = RLIdle]
  /\ UNCHANGED <<rlConfig, rlNow, perServer, acquired, exchanges, rlCalls, notRL>>

\* getLimiterForServer and limiter.Wait, up to its return or the start of its
\* timer.
ServerWait(c) ==
  /\ waiter[c].pc = "gotGlobal"
  /\ LET w == waiter[c]
         lims == getLimiterForServer(perServer, rlConfig, w.server)
         r == wait(lims[w.server], rlNow, CtxDone(w, rlNow), w.deadline)
     IN IF r.err # "nil"
          THEN /\ perServer' = lims
               /\ rlRet' = RLReturned("PerServerRateLimit", r.err)
               /\ waiter' = [waiter EXCEPT ![c] = RLIdle]
               /\ UNCHANGED acquired
          ELSE /\ perServer' = [lims EXCEPT ![w.server] = r.lim]
               /\ UNCHANGED rlRet
               /\ IF r.timeToAct = rlNow
                    THEN /\ waiter' = [waiter EXCEPT ![c] =
                              [w EXCEPT !.pc = "granted", !.sAct = r.timeToAct]]
                         /\ acquired' = [acquired EXCEPT ![w.server] = @ + 1]
                    ELSE /\ waiter' = [waiter EXCEPT ![c] =
                              [w EXCEPT !.pc = "serverSleep", !.sAct = r.timeToAct]]
                         /\ UNCHANGED acquired
  /\ UNCHANGED <<rlConfig, rlNow, global, exchanges, rlCalls, notRL>>

\* The timer of the per-server limiter.Wait fires: RateLimiter.Wait returns nil.
ServerTimer(c) ==
  /\ waiter[c].pc = "serverSleep"
  /\ rlNow >= waiter[c].sAct
  /\ waiter' = [waiter EXCEPT ![c].pc = "granted"]
  /\ acquired' = [acquired EXCEPT ![waiter[c].server] = @ + 1]
  /\ UNCHANGED <<rlConfig, rlNow, global, perServer, rlRet, exchanges, rlCalls,
                 notRL>>

\* The per-server limiter.Wait sees ctx.Done() while it sleeps.
ServerCtxDone(c) ==
  /\ waiter[c].pc = "serverSleep"
  /\ CtxDone(waiter[c], rlNow)
  /\ perServer' = [perServer EXCEPT ![waiter[c].server] =
                     CancelAt(@, waiter[c].sAct, rlNow)]
  /\ rlRet' = RLReturned("PerServerRateLimit", "CtxDone")
  /\ waiter' = [waiter EXCEPT ![c] = RLIdle]
  /\ UNCHANGED <<rlConfig, rlNow, global, acquired, exchanges, rlCalls, notRL>>

\* RateLimiter.Wait returned nil: Query performs the NTP exchange.
Exchange(c) ==
  /\ waiter[c].pc = "granted"
  /\ exchanges' = exchanges + 1
  /\ rlRet' = RLReturned("exchanged", "nil")
  /\ waiter' = [waiter EXCEPT ![c] = RLIdle]
  /\ UNCHANGED <<rlConfig, rlNow, global, perServer, acquired, rlCalls, notRL>>

\* The caller cancels the context of a query in progress.
CancelCtx(c) ==
  /\ waiter[c].pc \notin {"idle", "granted"}
  /\ ~waiter[c].cancelled
  /\ waiter' = [waiter EXCEPT ![c].cancelled = TRUE,
                              ![c].doneFirst = @ \/ ~TokensObtainedAt(waiter[c], rlNow)]
  /\ UNCHANGED <<rlConfig, rlNow, global, perServer, rlRet, acquired, exchanges,
                 rlCalls, notRL>>

\* A sleeping Wait that can already return: its timer is due or ctx.Done() is
\* ready.  Time does not pass before it has returned.
Wakeable(w) ==
  \/ w.pc = "globalSleep" /\ (rlNow >= w.gAct \/ CtxDone(w, rlNow))
  \/ w.pc = "serverSleep" /\ (rlNow >= w.sAct \/ CtxDone(w, rlNow))

\* Time passes by one unit; deadlines that are reached make ctx.Done() ready.
RLTick ==
  /\ rlNow < MaxRLTime
  /\ \A c \in RLCallers : ~Wakeable(waiter[c])
  /\ rlNow' = rlNow + 1
  /\ acquired' = [s \in Servers |-> 0]
  /\ waiter' = [c \in RLCallers |->
       IF waiter[c].pc # "idle" /\ waiter[c].deadline = rlNow + 1
            /\ ~TokensObtainedAt(waiter[c], rlNow + 1)
         THEN [waiter[c] EXCEPT !.doneFirst = TRUE]
         ELSE waiter[c]]
  /\ UNCHANGED <<rlConfig, global, perServer, rlRet, exchanges, rlCalls, notRL>>

RLNext ==
  \/ \E c \in RLCallers, s \in Servers : Allow(c, s)
  \/ \E c \in RLCallers, s \in Servers : \E ctx \in ContextsAt(rlNow) :
       QueryBegin(c, s, ctx)
  \/ \E c \in RLCallers : GlobalTimer(c)
  \/ \E c \in RLCallers : GlobalCtxDone(c)
  \/ \E c \in RLCallers : ServerWait(c)
  \/ \E c \in RLCallers : ServerTimer(c)
  \/ \E c \in RLCallers : ServerCtxDone(c)
  \/ \E c \in RLCallers : Exchange(c)
  \/ \E c \in RLCallers : CancelCtx(c)
  \/ RLTick

SpecRL == RLInit /\ [][RLNext]_vars

(***************************************************************************)
(* Claims about the rate limiter (checked under SpecRL).                   *)
(***************************************************************************)
RECURSIVE SumOver(_, _)
SumOver(f, S) ==
  IF S = {} THEN 0
  ELSE LET x == CHOOSE y \in S : TRUE IN f[x] + SumOver(f, S \ {x})

\* C11: starting from full buckets, while no time has passed no more than
\* burst acquisitions have succeeded, over all targets together (the global
\* bucket) and for every single target (its own bucket).
C11_BurstInZeroTime ==
  rlNow = 0
  => /\ SumOver(acquired, Servers) <= rlConfig.burstSize
     /\ \A s \in Servers : acquired[s] <= rlConfig.burstSize

\* No time has passed, burst acquisitions for one target have succeeded and
\* the next Allow was refused.
C11_Witness ==
  /\ rlNow = 0
  /\ rlConfig.burstSize = 2
  /\ \E s \in Servers : acquired[s] = rlConfig.burstSize
  /\ rlRet = RLReturned("false", "nil")

\* C12: a rate-limited Query goes on to the NTP exchange only when a token of
\* the global bucket and a token of the target's bucket have both been
\* obtained for it; a Query whose context is done (cancelled, or past its
\* deadline) before both were obtained returns an error, and an error return
\* performs no exchange.
C12_BothTokensOrError ==
  [][/\ \A c \in RLCallers :
          waiter'[c].pc = "granted"
          => /\ TokensObtainedAt(waiter'[c], rlNow')
             /\ ~waiter'[c].doneFirst
     /\ \A c \in RLCallers :
          (waiter[c].pc # "idle" /\ waiter[c].doneFirst /\ waiter'[c].pc = "idle")
          => rlRet'.value \in RLErrors /\ exchanges' = exchanges
     /\ (rlCalls' = rlCalls + 1)
          => \A c \in RLCallers, s \in Servers :
               QueryBegin(c, s, [cancelled |-> TRUE, deadline |-> NoDeadline])
               => /\ rlRet'.value = "GlobalRateLimit"
                  /\ waiter'[c].pc = "idle"
                  /\ exchanges' = exchanges
     /\ (exchanges' # exchanges)
          => \E c \in RLCallers :
               /\ waiter[c].pc = "granted" /\ waiter'[c].pc = "idle"
               /\ rlRet'.value = "exchanged"
     /\ (rlRet' # rlRet /\ rlRet'.value \in RLErrors) => exchanges' = exchanges]_vars

\* A query was cancelled after it had obtained the global token and before
\* it had the target's token, and returned the error; an earlier query had
\* obtained both tokens and performed its exchange.
C12_Witness ==
  /\ rlRet = RLReturned("PerServerRateLimit", "CtxDone")
  /\ exchanges >= 1
  /\ \A s \in Servers : perServer[s] # NoLimiter => perServer[s].tokens >= 0

(***************************************************************************)
(* DNS cache (internal/ntp/dnscache.go).  Time is counted in units of 30   *)
(* seconds.  A DNSCacheEntry is an object of the heap: the cache map and   *)
(* the Resolve calls in progress hold references to entries.               *)
(***************************************************************************)
MaxDNSTime == 3
MaxDNSCalls == 3

DefaultMinTTL == 10
DefaultMaxTTL == 120

NoEntry == 0

Hostnames == {"pool.example", "192.0.2.1"}
IPLiterals == {"192.0.2.1"}
Answers == {<<"198.51.100.1">>, <<"198.51.100.2">>}
Resolvers == {"d1", "d2"}

\* The entries that can be referenced at once: one by the cache map for the
\* hostname that is no IP literal and one by each Resolve call in progress.
MaxEntries == Cardinality(Resolvers) + 1

Free == [free |-> TRUE]

\* net.ParseIP(hostname) != nil.
ParseIP(hostname) == hostname \in IPLiterals

\* NewDNSCache: a zero MinTTL or MaxTTL is replaced by its default.
NewDNSCache(cfg) ==
  [minTTL |-> IF cfg.MinTTL = 0 THEN DefaultMinTTL ELSE cfg.MinTTL,
   maxTTL |-> IF cfg.MaxTTL = 0 THEN DefaultMaxTTL ELSE cfg.MaxTTL]

\* The configurations NewDNSCache is called with.
DNSCacheConfigs ==
  { [MinTTL |-> 0, MaxTTL |-> 0], [MinTTL |-> 1, MaxTTL |-> 3],
    [MinTTL |-> 3, MaxTTL |-> 1], [MinTTL |-> 0, MaxTTL |-> 2] }

\* The cache-hit test of Resolve: time.Now().Before(entry.ExpiresAt).
IsHitNever(exists, entry, t) == FALSE

IsHit(exists, entry, t) == exists /\ t < entry.ExpiresAt

\* entry.ErrorCount++ on a failed resolution with a previous entry.
KeepErrorCount(entry) == entry

IncrementErrorCount(entry) == [entry EXCEPT !.ErrorCount = @ + 1]

\* calculateAdaptiveTTL.
calculateAdaptiveTTLIgnoringErrors(cfg, exists, entry) ==
  IF exists THEN cfg.maxTTL ELSE (cfg.minTTL + cfg.maxTTL) \div 2

calculateAdaptiveTTLFirstAsMin(cfg, exists, entry) ==
  IF exists
    THEN IF entry.ErrorCount > 0 THEN cfg.minTTL ELSE cfg.maxTTL
    ELSE cfg.minTTL

calculateAdaptiveTTL(cfg, exists, entry) ==
  IF exists
    THEN IF entry.ErrorCount > 0 THEN cfg.minTTL ELSE cfg.maxTTL
    ELSE (cfg.minTTL + cfg.maxTTL) \div 2

\* The entry Resolve stores after a successful resolution.
NewEntry(ips, ttl, t) ==
  [IPs |-> ips, ExpiresAt |-> t + ttl, TTL |-> ttl, ErrorCount |-> 0]

\* The entries still referenced by the cache map or by a Resolve call in
\* progress other than r; the others are garbage.
Live(r) ==
  ({ cache[h] : h \in DOMAIN cache }
     \cup { resolving[d].entry : d \in Resolvers \ {r} }) \ {NoEntry}

\* Where a new entry is allocated.
Fresh(r) == CHOOSE i \in 1..MaxEntries : i \notin Live(r) /\ \A j \in 1..(i - 1) : j \in Live(r)

DNSIdle ==
  [pc |-> "idle", host |-> "none", exists |-> FALSE, entry |-> NoEntry,
   cold |-> FALSE]

DNSNoReturn == [kind |-> "none", host |-> "none", ips |-> <<>>, err |-> "nil",
                instant |-> FALSE, repeat |-> FALSE, gone |-> FALSE,
                cold |-> FALSE]

\* What Resolve returned: how (an IP literal, a cache hit, a refreshed
\* entry, a stale entry, an error), that no time has passed since, and
\* whether the call came immediately after a cache hit for the same hostname.
\* The marks gone and cold are set by the lookup's return: gone when the entry
\* the call had read was removed meanwhile, cold when the call had found no
\* entry for a hostname that had one earlier.
DNSReturned(kind, host, ips, err) ==
  [kind |-> kind, host |-> host, ips |-> ips, err |-> err, instant |-> TRUE,
   repeat |-> dnsRet.host = host /\ dnsRet.kind = "hit" /\ dnsRet.instant,
   gone |-> FALSE, cold |-> FALSE]

\* The entry the call had read was removed from the cache map before the
\* lookup returned.
Removed(w) == w.exists /\ cache[w.host] = NoEntry

DNSInit ==
  /\ CBQuiet
  /\ WPQuiet
  /\ RLQuiet
  /\ ScrapeQuiet
  /\ ColQuiet
  /\ SamplerQuiet
  /\ PoolQuiet
  /\ QAQuiet
  /\ ValidatorQuiet
  /\ RegQuiet
  /\ CQQuiet
  /\ StackQuiet
  /\ BPQuiet
  /\ dnsConfig \in { NewDNSCache(c) : c \in DNSCacheConfigs }
  /\ dnsNow = 0
  /\ heap = [i \in 1..MaxEntries |-> Free]
  /\ cache = [h \in Hostnames |-> NoEntry]
  /\ resolving = [r \in Resolvers |-> DNSIdle]
  /\ dnsRet = DNSNoReturn
  /\ lookups = 0
  /\ dnsCalls = 0

\* Resolve up to its return for an IP literal or a cache hit, or to the
\* start of the DNS lookup on a miss or an expired entry.
ResolveBegin(r, hostname) ==
  /\ resolving[r].pc = "idle"
  /\ dnsCalls < MaxDNSCalls
  /\ dnsCalls' = dnsCalls + 1
  /\ IF ParseIP(hostname)
       THEN /\ dnsRet' = DNSReturned("literal", hostname, <<hostname>>, "nil")
            /\ UNCHANGED <<resolving, lookups>>
       ELSE LET entry == cache[hostname]
                exists == entry # NoEntry
            IN IF IsHit(exists, heap[entry], dnsNow)
                 THEN /\ dnsRet' = DNSReturned("hit", hostname, heap[entry].IPs, "nil")
                      /\ UNCHANGED <<resolving, lookups>>
                 ELSE /\ resolving' = [resolving EXCEPT ![r] =
                           [pc |-> "lookup", host |-> hostname, exists |-> exists,
                            entry |-> entry,
                            cold |-> ~exists /\ \E i \in 1..MaxEntries :
                                                 heap[i] # Free]]
                      /\ lookups' = lookups + 1
                      /\ UNCHANGED dnsRet
  /\ UNCHANGED <<dnsConfig, dnsNow, heap, cache, notDNS>>

LookupFailsRereadsCache(r) ==
  /\ resolving[r].pc = "lookup"
  /\ LET w == resolving[r]
     IN IF w.exists /\ cache[w.host] = w.entry
          THEN /\ heap' = [heap EXCEPT ![w.entry] = IncrementErrorCount(@)]
               /\ dnsRet' = DNSReturned("stale", w.host, heap[w.entry].IPs, "nil")
          ELSE /\ dnsRet' = [DNSReturned("error", w.host, <<>>, "LookupError")
                               EXCEPT !.gone = Removed(w), !.cold = w.cold]
               /\ UNCHANGED heap
  /\ resolving' = [resolving EXCEPT ![r] = DNSIdle]
  /\ UNCHANGED <<dnsConfig, dnsNow, cache, lookups, dnsCalls, notDNS>>

\* resolveWithTimeout fails: the stale entry, if Resolve had found one, has
\* its ErrorCount incremented and its IPs are returned; else the error is.
LookupFails(r) ==
  /\ resolving[r].pc = "lookup"
  /\ LET w == resolving[r]
     IN IF w.exists
          THEN /\ heap' = [heap EXCEPT ![w.entry] = IncrementErrorCount(@)]
               /\ dnsRet' = [DNSReturned("stale", w.host, heap[w.entry].IPs, "nil")
                               EXCEPT !.gone = Removed(w)]
          ELSE /\ dnsRet' = [DNSReturned("error", w.host, <<>>, "LookupError")
                               EXCEPT !.cold = w.cold]
               /\ UNCHANGED heap
  /\ resolving' = [resolving EXCEPT ![r] = DNSIdle]
  /\ UNCHANGED <<dnsConfig, dnsNow, cache, lookups, dnsCalls, notDNS>>

\* resolveWithTimeout succeeds: a new entry with the adaptive TTL replaces
\* the hostname's entry in the cache.
LookupSucceeds(r, ips) ==
  /\ resolving[r].pc = "lookup"
  /\ LET w == resolving[r]
         ttl == calculateAdaptiveTTL(dnsConfig, w.exists, heap[w.entry])
         new == Fresh(r)
     IN /\ heap' = [heap EXCEPT ![new] = NewEntry(ips, ttl, dnsNow)]
        /\ cache' = [cache EXCEPT ![w.host] = new]
        /\ dnsRet' = [DNSReturned("refreshed", w.host, ips, "nil")
                        EXCEPT !.gone = Removed(w), !.cold = w.cold]
  /\ resolving' = [resolving EXCEPT ![r] = DNSIdle]
  /\ UNCHANGED <<dnsConfig, dnsNow, lookups, dnsCalls, notDNS>>

\* Invalidate(hostname).
Invalidate(hostname) ==
  /\ cache[hostname] # NoEntry
  /\ cache' = [cache EXCEPT ![hostname] = NoEntry]
  /\ UNCHANGED <<dnsConfig, dnsNow, heap, resolving, dnsRet, lookups, dnsCalls,
                 notDNS>>

\* Clear: the cache map is replaced by an empty one.
Clear ==
  /\ \E h \in Hostnames : cache[h] # NoEntry
  /\ cache' = [h \in Hostnames |-> NoEntry]
  /\ UNCHANGED <<dnsConfig, dnsNow, heap, resolving, dnsRet, lookups, dnsCalls,
                 notDNS>>

\* CleanupExpired: removes the entries with now.After(entry.ExpiresAt).
CleanupExpired ==
  /\ \E h \in Hostnames : cache[h] # NoEntry /\ dnsNow > heap[cache[h]].ExpiresAt
  /\ cache' = [h \in Hostnames |->
       IF cache[h] # NoEntry /\ dnsNow > heap[cache[h]].ExpiresAt
         THEN NoEntry ELSE cache[h]]
  /\ UNCHANGED <<dnsConfig, dnsNow, heap, resolving, dnsRet, lookups, dnsCalls,
                 notDNS>>

\* Time passes by one unit.
DNSTick ==
  /\ dnsNow < MaxDNSTime
  /\ dnsNow' = dnsNow + 1
  /\ dnsRet' = [dnsRet EXCEPT !.instant = FALSE]
  /\ UNCHANGED <<dnsConfig, heap, cache, resolving, lookups, dnsCalls, notDNS>>

DNSNext ==
  \/ \E r \in Resolvers, h \in Hostnames : ResolveBegin(r, h)
  \/ \E r \in Resolvers : LookupFails(r)
  \/ \E r \in Resolvers, ips \in Answers : LookupSucceeds(r, ips)
  \/ \E h \in Hostnames : Invalidate(h)
  \/ Clear
  \/ CleanupExpired
  \/ DNSTick

SpecDNS == DNSInit /\ [][DNSNext]_vars

(***************************************************************************)
(* Claims about the DNS cache (checked under SpecDNS).                     *)
(***************************************************************************)
\* The Resolve call of r returns in this step.
ResolveReturns(r) == resolving[r].pc = "lookup" /\ resolving'[r].pc = "idle"

\* C13: when the resolution fails and Resolve had found a previous entry for
\* the hostname, that entry's ErrorCount is incremented and its IPs are
\* returned without error; when Resolve had found no entry, the resolution
\* error is returned and the cache is left as it was.
C13_StaleOnError ==
  [][\A r \in Resolvers :
       (ResolveReturns(r) /\ LookupFails(r))
       => LET w == resolving[r]
          IN IF w.exists
               THEN /\ heap'[w.entry].ErrorCount = heap[w.entry].ErrorCount + 1
                    /\ dnsRet'.ips = heap[w.entry].IPs
                    /\ dnsRet'.err = "nil"
                    /\ cache' = cache
               ELSE /\ dnsRet'.err = "LookupError"
                    /\ dnsRet'.ips = <<>>
                    /\ heap' = heap /\ cache' = cache]_vars

\* A second failed refresh in a row returned the stale IPs of the expired
\* entry, whose ErrorCount is now 2.
C13_Witness ==
  /\ dnsRet.kind = "stale"
  /\ \E h \in Hostnames :
       /\ cache[h] # NoEntry
       /\ heap[cache[h]].ErrorCount = 2
       /\ dnsNow >= heap[cache[h]].ExpiresAt
       /\ dnsRet.ips = heap[cache[h]].IPs

\* The TTL rule of a successful refresh: the entry stored for the hostname
\* has the TTL chosen from the entry Resolve had found, expires that long
\* from now and has no errors.
RefreshRule(r) ==
  LET w == resolving[r]
      stored == heap'[cache'[w.host]]
  IN /\ cache'[w.host] # NoEntry
     /\ stored.TTL = IF ~w.exists THEN (dnsConfig.minTTL + dnsConfig.maxTTL) \div 2
                     ELSE IF heap[w.entry].ErrorCount > 0 THEN dnsConfig.minTTL
                     ELSE dnsConfig.maxTTL
     /\ stored.ExpiresAt = dnsNow + stored.TTL
     /\ stored.ErrorCount = 0

C15_LookupOnlyOnMiss ==
  [][(dnsCalls' = dnsCalls + 1)
       => \A r \in Resolvers, h \in Hostnames :
            ResolveBegin(r, h)
            => LET e == cache[h]
                   unexpired == e # NoEntry /\ dnsNow < heap[e].ExpiresAt
               IN /\ ParseIP(h)
                    => /\ dnsRet'.ips = <<h>> /\ dnsRet'.err = "nil"
                       /\ lookups' = lookups
                  /\ (~ParseIP(h) /\ unexpired)
                    => /\ dnsRet'.ips = heap[e].IPs /\ dnsRet'.err = "nil"
                       /\ lookups' = lookups
                  /\ (lookups' # lookups) <=> (~ParseIP(h) /\ ~unexpired)
                  /\ cache' = cache /\ heap' = heap
                  /\ (dnsRet'.repeat /\ dnsRet'.kind = "hit")
                    => dnsRet'.ips = dnsRet.ips]_vars

\* Two calls for a hostname immediately after its first resolution were both
\* answered from the cache: one lookup for three calls.
C15_Witness ==
  /\ dnsRet.kind = "hit" /\ dnsRet.repeat
  /\ dnsCalls = 3
  /\ lookups = 1
  /\ \A r \in Resolvers : resolving[r].pc = "idle"

(***************************************************************************)
(* Collector registry (Registry.CollectAll) and the scrape loop            *)
(* (runCollectionLoop).                                                    *)
(***************************************************************************)

MaxCollectors == 3
MaxTicks == 3

\* The collectors main registers, in its order of registration.
CollectorNames == <<"base", "quality", "security", "hybrid">>

Name(i) == IF i <= Len(CollectorNames) THEN CollectorNames[i] ELSE "extra"

\* Registry.Register appends: a registry is the list of the first n collectors,
\* each one enabled or not.
Registries ==
  {r \in UNION {[1..n -> [name : {Name(i) : i \in 1..MaxCollectors},
                               enabled : BOOLEAN]] : n \in 0..MaxCollectors} :
     \A i \in DOMAIN r : r[i].name = Name(i)}

\* What Collect of the i-th collector returns when it is called.
Outcomes(cs) == [DOMAIN cs -> {"nil", "failed"}]

\* The nil error of CollectAll.
NilError == [collector |-> "", cause |-> "nil"]

\* fmt.Errorf("%s: %w", c.Name(), err)
WrapCollectorError(name, err) == [collector |-> name, cause |-> err]

\* The loop of CollectAll from the i-th collector on: ran lists the collectors
\* whose Collect was called, errs the wrapped errors.
RECURSIVE collectLoop(_, _, _, _, _)
collectLoop(cs, outcome, i, ran, errs) ==
  IF i > Len(cs) THEN [ran |-> ran, errs |-> errs]
  ELSE IF ~cs[i].enabled THEN collectLoop(cs, outcome, i + 1, ran, errs)
  ELSE collectLoop(cs, outcome, i + 1, Append(ran, cs[i].name),
                   IF outcome[i] # "nil"
                   THEN Append(errs, WrapCollectorError(cs[i].name, outcome[i]))
                   ELSE errs)

CollectAllReturnsLastError(cs, outcome) ==
  LET r == collectLoop(cs, outcome, 1, <<>>, <<>>)
  IN [ran |-> r.ran, outcome |-> outcome,
      err |-> IF Len(r.errs) > 0 THEN r.errs[Len(r.errs)] ELSE NilError]

CollectAll(cs, outcome) ==
  LET r == collectLoop(cs, outcome, 1, <<>>, <<>>)
  IN [ran |-> r.ran, outcome |-> outcome,
      err |-> IF Len(r.errs) > 0 THEN r.errs[1] ELSE NilError]

NoCollect ==
  [ran |-> <<>>, outcome |-> <<>>, err |-> [collector |-> "", cause |-> "none"]]

ScrapeInit ==
  /\ CBQuiet
  /\ WPQuiet
  /\ RLQuiet
  /\ DNSQuiet
  /\ ColQuiet
  /\ SamplerQuiet
  /\ PoolQuiet
  /\ QAQuiet
  /\ ValidatorQuiet
  /\ RegQuiet
  /\ CQQuiet
  /\ StackQuiet
  /\ BPQuiet
  /\ collectors \in Registries
  /\ loopPc = "start"
  /\ tickC = 0
  /\ ticks = 0
  /\ shutdown = FALSE
  /\ cycles = 0
  /\ lastCollect = NoCollect
  /\ loopRet = "none"

\* runCollectionLoop calls CollectAll first, whatever the state of ctx.
InitialCollectBegin ==
  /\ loopPc = "start"
  /\ loopPc' = "initial"
  /\ cycles' = cycles + 1
  /\ UNCHANGED <<collectors, tickC, ticks, shutdown, lastCollect, loopRet, notSC>>

\* The initial CollectAll returns; its error is logged; the ticker is created.
InitialCollectEnd ==
  /\ loopPc = "initial"
  /\ \E outcome \in Outcomes(collectors) :
       lastCollect' = CollectAll(collectors, outcome)
  /\ loopPc' = "select"
  /\ UNCHANGED <<collectors, tickC, ticks, shutdown, cycles, loopRet, notSC>>

\* The ticker's period elapses: ticker.C holds one tick at most, a tick that
\* finds it full is dropped.
TickerFires ==
  /\ loopPc \in {"select", "cycle"}
  /\ ticks < MaxTicks
  /\ ticks' = ticks + 1
  /\ tickC' = 1
  /\ UNCHANGED <<collectors, loopPc, shutdown, cycles, lastCollect, loopRet, notSC>>

\* select takes the case <-ticker.C, which it may whenever a tick is
\* buffered, the context being cancelled or not.
SelectTick ==
  /\ loopPc = "select"
  /\ tickC = 1
  /\ tickC' = 0
  /\ loopPc' = "cycle"
  /\ cycles' = cycles + 1
  /\ UNCHANGED <<collectors, ticks, shutdown, lastCollect, loopRet, notSC>>

\* The CollectAll of a tick returns; its error is logged and the loop goes on.
CycleEnd ==
  /\ loopPc = "cycle"
  /\ \E outcome \in Outcomes(collectors) :
       lastCollect' = CollectAll(collectors, outcome)
  /\ loopPc' = "select"
  /\ UNCHANGED <<collectors, tickC, ticks, shutdown, cycles, loopRet, notSC>>

\* select takes the case <-ctx.Done(): the loop returns nil.
SelectDone ==
  /\ loopPc = "select"
  /\ shutdown
  /\ loopPc' = "exited"
  /\ loopRet' = "nil"
  /\ UNCHANGED <<collectors, tickC, ticks, shutdown, cycles, lastCollect, notSC>>

\* main calls cancel().
Shutdown ==
  /\ ~shutdown
  /\ shutdown' = TRUE
  /\ UNCHANGED <<collectors, loopPc, tickC, ticks, cycles, lastCollect, loopRet, notSC>>

ScrapeNext ==
  \/ InitialCollectBegin
  \/ InitialCollectEnd
  \/ TickerFires
  \/ SelectTick
  \/ CycleEnd
  \/ SelectDone
  \/ Shutdown

SpecScrape == ScrapeInit /\ [][ScrapeNext]_vars

\* The positions of the enabled collectors of a registry.
EnabledAt(cs) == {i \in DOMAIN cs : cs[i].enabled}

\* C16: every CollectAll ran the enabled collectors and no other, each once,
\* in registration order, whichever of them failed, and returned the error of
\* the first one that failed, wrapped with its name, or nil if none failed.
C16_CollectAllRunsEnabledInOrder ==
  lastCollect # NoCollect
  => LET ran == lastCollect.ran
         en == EnabledAt(collectors)
         bad == {i \in en : lastCollect.outcome[i] # "nil"}
     IN /\ Len(ran) = Cardinality(en)
        /\ \A i \in en : \E k \in DOMAIN ran : ran[k] = collectors[i].name
        /\ \A k, l \in DOMAIN ran :
             k < l => \E i, j \in en : /\ i < j
                                       /\ ran[k] = collectors[i].name
                                       /\ ran[l] = collectors[j].name
        /\ (bad = {}) <=> (lastCollect.err = NilError)
        /\ bad # {}
             => LET first == CHOOSE i \in bad : \A j \in bad : i <= j
                IN lastCollect.err =
                     WrapCollectorError(collectors[first].name,
                                        lastCollect.outcome[first])

\* A CollectAll over a registry with a disabled collector in which the first
\* and the last enabled collector failed: both enabled collectors ran and the
\* first one's error was returned.
C16_Witness ==
  /\ Len(collectors) = 3
  /\ collectors[1].enabled /\ ~collectors[2].enabled /\ collectors[3].enabled
  /\ lastCollect.ran = <<"base", "security">>
  /\ lastCollect.outcome[1] = "failed" /\ lastCollect.outcome[3] = "failed"
  /\ lastCollect.err = WrapCollectorError("base", "failed")

\* C17 (as stated): the loop starts with a CollectAll, starts one more for
\* each tick, goes on after a CollectAll that failed, and once the context is
\* cancelled starts no CollectAll any more and returns nil.
C17_Claim ==
  [][/\ (loopPc = "start" /\ loopPc' # loopPc) => loopPc' = "initial"
     /\ (cycles' # cycles /\ loopPc # "start") => tickC = 1 /\ tickC' = 0
     /\ (loopPc \in {"initial", "cycle"} /\ lastCollect' # lastCollect)
          => loopPc' = "select"
     /\ (shutdown /\ loopPc # "start") => cycles' = cycles
     /\ loopRet' \in {"none", "nil"}]_vars

(***************************************************************************)
(* The collectors: CommonCollector.IterateServers, BaseCollector.Collect   *)
(* and HybridCollector.Collect, writing into the metric sink.              *)
(***************************************************************************)

\* A list of servers has as many entries as there are servers at most, so
\* that a server can be listed twice.
MaxListed == Cardinality(Servers)

\* The labels a metric can carry: the configured servers and one server that
\* is only reached through a pool.
Labels == Servers \cup {"p1"}

\* What Client.Query returns for a server: a response, or the error of the
\* wire client, of the rate limiter or of the circuit breaker.
QueryResults == {"ok", "timeout", "rate limit exceeded", "circuit breaker open"}

\* What Client.Query returns in collectAndCorrelate, which treats every error
\* alike.
CorrelateResults == {"ok", "timeout"}

\* What Pool.Query returns: an error, or the responses of the pool's servers.
PoolResults == {<<"failed">>, <<"p1">>, <<"s2", "p1">>}

\* What KernelReader.Read returns.
KernelResults == {"ok", "failed"}

\* cfg.NTP: Validate accepts any list of servers, a server may be listed twice.
NTPConfigs ==
  [Servers : UNION {[1..n -> Servers] : n \in 0..MaxListed},
   Pools : {<<>>, <<"pool">>},
   EnableKernel : BOOLEAN]

Unset == -1

\* The gauges of the sink: server_reachable, and whether the other base
\* metrics of a label, the pool metrics, the kernel metrics and the divergence
\* and coherence of a label were never set ("never"), set in the current
\* scrape cycle ("fresh") or last set in an earlier one ("stale").
\* clock_offset_exceeded keeps its value, Unset while it has none.
NewNTPMetrics ==
  [reachable |-> [l \in Labels |-> Unset],
   base |-> [l \in Labels |-> "never"],
   pool |-> "never",
   kernel |-> "never",
   correlation |-> [l \in Labels |-> "never"],
   exceeded |-> [l \in Labels |-> Unset]]

\* A scrape cycle begins: what the last cycle set is no longer fresh.
Aged(v) == IF v = "fresh" THEN "stale" ELSE v

NewCycle(m) ==
  [reachable |-> m.reachable,
   base |-> [l \in Labels |-> Aged(m.base[l])],
   pool |-> Aged(m.pool),
   kernel |-> Aged(m.kernel),
   correlation |-> [l \in Labels |-> Aged(m.correlation[l])],
   exceeded |-> m.exceeded]

SetReachable(m, server, v) == [m EXCEPT !.reachable[server] = v]

\* BaseCollector.updateMetrics(resp), resp.Server being the label.
updateMetrics(m, label) == [m EXCEPT !.base[label] = "fresh"]

collectFromServerUpdatesAnyway(m, server, result) ==
  [m |-> updateMetrics(m, server),
   err |-> IF result # "ok" THEN result ELSE "nil"]

\* BaseCollector.collectFromServer
collectFromServer(m, server, result) ==
  IF result # "ok"
  THEN [m |-> m, err |-> result]
  ELSE [m |-> updateMetrics(m, server), err |-> "nil"]

\* The loop of BaseCollector.Collect over cfg.NTP.Servers, from the i-th on.
RECURSIVE baseServers(_, _, _, _)
baseServers(servers, results, i, m) ==
  IF i > Len(servers) THEN m
  ELSE LET r == collectFromServer(m, servers[i], results[i])
       IN baseServers(servers, results, i + 1,
                      SetReachable(r.m, servers[i],
                                   IF r.err # "nil" THEN 0 ELSE 1))

\* updateMetrics for the responses of a pool, from the i-th on.
RECURSIVE poolResponses(_, _, _)
poolResponses(resp, i, m) ==
  IF i > Len(resp) THEN m
  ELSE poolResponses(resp, i + 1, updateMetrics(m, resp[i]))

\* BaseCollector.collectFromPool
collectFromPool(m, presult) ==
  IF presult = <<"failed">>
  THEN [m |-> m, err |-> "failed"]
  ELSE [m |-> poolResponses(presult, 1, [m EXCEPT !.pool = "fresh"]),
        err |-> "nil"]

\* BaseCollector.Collect: the servers, then the pools; it returns nil.
BaseCollectResult(cfg, m, results, presult) ==
  LET m1 == baseServers(cfg.Servers, results, 1, m)
      m2 == IF Len(cfg.Pools) > 0 THEN collectFromPool(m1, presult).m
            ELSE m1
  IN [m |-> m2, err |-> "nil"]

\* HybridCollector.collectAndCorrelate
collectAndCorrelate(m, server, result) ==
  IF result # "ok"
  THEN [m |-> m, err |-> result]
  ELSE [m |-> [m EXCEPT !.correlation[server] = "fresh"], err |-> "nil"]

\* The loop of IterateServers from the i-th server on, collectFunc being
\* collectAndCorrelate: calls lists the servers collectFunc was called with.
RECURSIVE iterateLoop(_, _, _, _, _)
iterateLoop(servers, results, i, calls, m) ==
  IF i > Len(servers) THEN [calls |-> calls, m |-> m, err |-> "nil"]
  ELSE LET r == collectAndCorrelate(m, servers[i], results[i])
       IN iterateLoop(servers, results, i + 1, Append(calls, servers[i]),
                      r.m)

IterateServersStopsAtFailure(servers, results, m) ==
  LET bad == {i \in DOMAIN servers : results[i] # "ok"}
      n == IF bad = {} THEN Len(servers)
           ELSE CHOOSE i \in bad : \A j \in bad : i <= j
  IN iterateLoop(SubSeq(servers, 1, n), results, 1, <<>>, m)

\* CommonCollector.IterateServers
IterateServers(servers, results, m) ==
  iterateLoop(servers, results, 1, <<>>, m)

\* HybridCollector.updateKernelMetrics
updateKernelMetrics(m) == [m EXCEPT !.kernel = "fresh"]

HybridCollectFailsOnKernelError(cfg, m, kresult, results) ==
  IF ~cfg.EnableKernel THEN [calls |-> <<>>, m |-> m, err |-> "nil"]
  ELSE IF kresult # "ok" THEN [calls |-> <<>>, m |-> m, err |-> kresult]
  ELSE IterateServers(cfg.Servers, results, updateKernelMetrics(m))

\* HybridCollector.Collect
HybridCollectResult(cfg, m, kresult, results) ==
  IF ~cfg.EnableKernel THEN [calls |-> <<>>, m |-> m, err |-> "nil"]
  ELSE IF kresult # "ok" THEN [calls |-> <<>>, m |-> m, err |-> "nil"]
  ELSE IterateServers(cfg.Servers, results, updateKernelMetrics(m))

NoBase == [done |-> FALSE, results |-> <<>>, pool |-> <<>>]

NoHybrid == [kernel |-> "none", results |-> <<>>, calls |-> <<>>]

NoColReturn == [collector |-> "none", err |-> "nil"]

ColInit ==
  /\ CBQuiet
  /\ WPQuiet
  /\ RLQuiet
  /\ DNSQuiet
  /\ ScrapeQuiet
  /\ SamplerQuiet
  /\ PoolQuiet
  /\ QAQuiet
  /\ ValidatorQuiet
  /\ RegQuiet
  /\ CQQuiet
  /\ StackQuiet
  /\ BPQuiet
  /\ colCfg \in NTPConfigs
  /\ sink = NewNTPMetrics
  /\ colPc = "base"
  /\ lastBase = NoBase
  /\ lastHybrid = NoHybrid
  /\ colRet = NoColReturn

\* A scrape cycle begins: CollectAll calls Collect of the Base collector.
BaseCollect ==
  /\ colPc = "base"
  /\ \E results \in [DOMAIN colCfg.Servers -> QueryResults],
        presult \in IF Len(colCfg.Pools) > 0 THEN PoolResults ELSE {<<>>} :
       LET r == BaseCollectResult(colCfg, NewCycle(sink), results, presult)
       IN /\ sink' = r.m
          /\ colRet' = [collector |-> "base", err |-> r.err]
          /\ lastBase' = [done |-> TRUE, results |-> results,
                          pool |-> presult]
  /\ lastHybrid' = NoHybrid
  /\ colPc' = IF colCfg.EnableKernel THEN "hybrid" ELSE "base"
  /\ UNCHANGED <<colCfg, notCol>>

\* CollectAll calls Collect of the Hybrid collector, registered last when
\* EnableKernel is set.
HybridCollect ==
  /\ colPc = "hybrid"
  /\ \E kresult \in KernelResults,
        results \in [DOMAIN colCfg.Servers -> CorrelateResults] :
       LET r == HybridCollectResult(colCfg, sink, kresult, results)
       IN /\ sink' = r.m
          /\ colRet' = [collector |-> "hybrid", err |-> r.err]
          /\ lastHybrid' = [kernel |-> kresult,
                            results |-> IF kresult = "ok" THEN results
                                        ELSE <<>>,
                            calls |-> r.calls]
  /\ colPc' = "base"
  /\ UNCHANGED <<colCfg, lastBase, notCol>>

ColNext ==
  \/ BaseCollect
  \/ HybridCollect

SpecCol == ColInit /\ [][ColNext]_vars

\* The step is a Collect of the Hybrid collector.
HybridCollected == colPc = "hybrid" /\ colPc' = "base"

\* C18: IterateServers calls the per-server function once for each entry of
\* cfg.NTP.Servers, in the order of the list, whatever the calls for earlier
\* servers returned, so that every server whose call succeeds is collected,
\* and it returns nil.
C18_IterateServersVisitsAll ==
  [][(HybridCollected /\ lastHybrid'.kernel = "ok")
       => /\ lastHybrid'.calls = colCfg.Servers
          /\ colRet' = [collector |-> "hybrid", err |-> "nil"]
          /\ \A i \in DOMAIN colCfg.Servers :
               lastHybrid'.results[i] = "ok"
               => sink'.correlation[colCfg.Servers[i]] = "fresh"]_vars

\* The call for the first server failed and the second server, a different
\* one, was still called and collected.
C18_Witness ==
  /\ lastHybrid.kernel = "ok"
  /\ Len(colCfg.Servers) = 2
  /\ colCfg.Servers[1] # colCfg.Servers[2]
  /\ lastHybrid.results[1] = "timeout"
  /\ lastHybrid.results[2] = "ok"
  /\ lastHybrid.calls = colCfg.Servers
  /\ sink.correlation[colCfg.Servers[1]] = "never"
  /\ sink.correlation[colCfg.Servers[2]] = "fresh"

\* The entries of cfg.NTP.Servers that name the server s.
EntriesOf(s) == {i \in DOMAIN colCfg.Servers : colCfg.Servers[i] = s}

\* The labels of the responses the pool returned in the last Base cycle.
PoolAnswered ==
  IF lastBase.pool \in {<<>>, <<"failed">>} THEN {}
  ELSE {lastBase.pool[i] : i \in DOMAIN lastBase.pool}

\* C19 (as stated): after a Base cycle, a server with a failed query has
\* server_reachable = 0 and no other base metric updated in the cycle, and a
\* server with a successful query has server_reachable = 1.
C19_Original ==
  lastBase.done
  => \A s \in Servers :
       /\ (\E i \in EntriesOf(s) : lastBase.results[i] # "ok")
            => /\ sink.reachable[s] = 0
               /\ sink.base[s] # "fresh"
       /\ (\E i \in EntriesOf(s) : lastBase.results[i] = "ok")
            => sink.reachable[s] = 1

\* C19 (amended): after a Base cycle, server_reachable of a listed server is
\* 0 or 1 as the query of its last entry in the list failed or succeeded, and
\* its other base metrics were updated in the cycle exactly if one of its
\* queries succeeded or a pool answered through it; for a server listed once
\* that no pool answered through, a failed query leaves 0 and no update, a
\* successful query leaves 1.
C19_BaseReachability ==
  lastBase.done
  => \A s \in Servers :
       EntriesOf(s) # {}
       => LET last == CHOOSE i \in EntriesOf(s) : \A j \in EntriesOf(s) : j <= i
              once == Cardinality(EntriesOf(s)) = 1 /\ s \notin PoolAnswered
          IN /\ sink.reachable[s] = IF lastBase.results[last] = "ok" THEN 1 ELSE 0
             /\ (sink.base[s] = "fresh")
                  <=> \/ \E i \in EntriesOf(s) : lastBase.results[i] = "ok"
                      \/ s \in PoolAnswered
             /\ (once /\ lastBase.results[last] # "ok")
                  => sink.reachable[s] = 0 /\ sink.base[s] # "fresh"
             /\ (once /\ lastBase.results[last] = "ok")
                  => sink.reachable[s] = 1 /\ sink.base[s] = "fresh"

\* In a later cycle the query of s1 was refused by the rate limiter and the
\* query of s2 succeeded: s1 is unreachable and keeps the base metrics of an
\* earlier cycle, s2 is reachable and updated.
C19_Witness ==
  /\ lastBase.done
  /\ colCfg.Servers = <<"s1", "s2">>
  /\ lastBase.pool \in {<<>>, <<"failed">>}
  /\ lastBase.results = <<"rate limit exceeded", "ok">>
  /\ sink.reachable["s1"] = 0 /\ sink.base["s1"] = "stale"
  /\ sink.reachable["s2"] = 1 /\ sink.base["s2"] = "fresh"

MaxClockOffset == 100

\* The offset of the response of each server, in milliseconds.
ResponseOffset == [l \in Labels |-> IF l = "s1" THEN 3 ELSE -250]

\* C28: after a Base cycle, clock_offset_exceeded of every server queried
\* successfully is 1 if the absolute offset of its response is above the
\* configured maximum clock offset, and 0 otherwise.
C28_Claim ==
  lastBase.done
  => \A s \in Servers :
       (\E i \in EntriesOf(s) : lastBase.results[i] = "ok")
       => sink.exceeded[s] =
            IF (IF ResponseOffset[s] < 0 THEN -ResponseOffset[s]
                ELSE ResponseOffset[s]) > MaxClockOffset
            THEN 1 ELSE 0

(***************************************************************************)
(* Client.QueryMultiple, CalculateStatistics and AdaptiveSampler.Sample.   *)
(* Offsets are in milliseconds, the clock in units of MaxDuration's        *)
(* default (30 s).                                                         *)
(***************************************************************************)

MaxCount == 2
MaxSMTime == 2

\* The clock offsets a server can answer with.
Offsets == {4, 80, -80}

\* What Client.Query returns: a Response (its Offset) or an error.
QueryFailed == [ok |-> FALSE, offset |-> 0]

QueryOutcomes == {[ok |-> TRUE, offset |-> o] : o \in Offsets} \cup {QueryFailed}

NoError == [kind |-> "nil", server |-> "", count |-> 0]

\* ctx.Err()
Canceled == [kind |-> "context canceled", server |-> "", count |-> 0]

DeadlineExceeded == [kind |-> "context deadline exceeded", server |-> "", count |-> 0]

\* fmt.Errorf("all %d NTP queries failed for server %s", count, server)
AllFailed(server, count) ==
  [kind |-> "all NTP queries failed", server |-> server, count |-> count]

\* The frame of a QueryMultiple call: its position, its arguments, the loop
\* index, the responses appended so far, what each Query returned, the
\* deadline of its context and its return.
NewFrame(server, count, deadline) ==
  [pc |-> "top", server |-> server, count |-> count, i |-> 0,
   responses |-> <<>>, outcomes |-> <<>>, deadline |-> deadline,
   ret |-> [responses |-> <<>>, err |-> NoError]]

NoFrame == [NewFrame("", 0, NoDeadline) EXCEPT !.pc = "idle"]

FinishWithoutError(f) == [responses |-> f.responses, err |-> NoError]

\* The end of QueryMultiple, after the loop.
Finish(f) ==
  IF Len(f.responses) = 0
  THEN [responses |-> <<>>, err |-> AllFailed(f.server, f.count)]
  ELSE [responses |-> f.responses, err |-> NoError]

LoopTopIgnoresContext(f, done, ctxErr) ==
  IF f.i >= f.count THEN [f EXCEPT !.pc = "returned", !.ret = Finish(f)]
  ELSE [f EXCEPT !.pc = "query"]

\* The loop condition and the select at the top of the loop body: the loop
\* ends, or the context is done and what was collected is returned with
\* ctx.Err(), or Query is called.
LoopTop(f, done, ctxErr) ==
  IF f.i >= f.count THEN [f EXCEPT !.pc = "returned", !.ret = Finish(f)]
  ELSE IF done
  THEN [f EXCEPT !.pc = "returned",
                 !.ret = [responses |-> f.responses, err |-> ctxErr]]
  ELSE [f EXCEPT !.pc = "query"]

AfterAttemptStopsAtFailure(f, outcome) ==
  IF ~outcome.ok
  THEN [f EXCEPT !.pc = "top", !.i = f.count,
                 !.outcomes = Append(@, outcome)]
  ELSE [f EXCEPT !.pc = "top", !.i = @ + 1,
                 !.outcomes = Append(@, outcome),
                 !.responses = Append(@, outcome.offset)]

\* The rest of the loop body once Query has returned: an error is logged and
\* the loop goes on, a response is appended.
AfterAttempt(f, outcome) ==
  IF ~outcome.ok
  THEN [f EXCEPT !.pc = "top", !.i = @ + 1,
                 !.outcomes = Append(@, outcome)]
  ELSE [f EXCEPT !.pc = "top", !.i = @ + 1,
                 !.outcomes = Append(@, outcome),
                 !.responses = Append(@, outcome.offset)]

\* sortFloat64: the values in ascending order.
RECURSIVE insertSorted(_, _)
insertSorted(sorted, v) ==
  IF sorted = <<>> THEN <<v>>
  ELSE IF v <= Head(sorted) THEN <<v>> \o sorted
  ELSE <<Head(sorted)>> \o insertSorted(Tail(sorted), v)

RECURSIVE sortFloat64(_)
sortFloat64(values) ==
  IF values = <<>> THEN <<>>
  ELSE insertSorted(sortFloat64(Tail(values)), Head(values))

\* time.Duration(x / 2): the conversion truncates towards zero.
HalfTruncated(x) == IF x >= 0 THEN x \div 2 ELSE -((-x) \div 2)

\* Statistics.MedianOffset of CalculateStatistics: the middle value, or the
\* mean of the two middle values, 0 for no value.
MedianOffset(offsets) ==
  LET sorted == sortFloat64(offsets)
      n == Len(sorted)
  IN IF n = 0 THEN 0
     ELSE IF n % 2 = 0 THEN HalfTruncated(sorted[n \div 2] + sorted[n \div 2 + 1])
     ELSE sorted[n \div 2 + 1]

AbsDuration(d) == IF d < 0 THEN -d ELSE d

\* NewAdaptiveSampler: zero fields take the defaults.
NewAdaptiveSampler(cfg) ==
  [DefaultSamples |-> IF cfg.DefaultSamples = 0 THEN 3 ELSE cfg.DefaultSamples,
   HighDriftSamples |-> IF cfg.HighDriftSamples = 0 THEN 10
                        ELSE cfg.HighDriftSamples,
   DriftThreshold |-> IF cfg.DriftThreshold = 0 THEN 50 ELSE cfg.DriftThreshold,
   MaxDuration |-> IF cfg.MaxDuration = 0 THEN 1 ELSE cfg.MaxDuration]

\* The configurations of the sampler: two default samples and four or one
\* high-drift samples, the default threshold and duration.
SamplerConfigs ==
  {[DefaultSamples |-> 2, HighDriftSamples |-> h, DriftThreshold |-> 0,
    MaxDuration |-> 0] : h \in {4, 1}}

SampleDecidesWithoutDrift(cfg, got, elapsed) ==
  IF got.err # NoError THEN "fail"
  ELSE IF Len(got.responses) = 0 THEN "empty"
  ELSE IF elapsed < cfg.MaxDuration THEN "extra"
  ELSE "return"

\* What Sample does with the return of the first QueryMultiple: it fails with
\* its error, returns an empty batch, takes additional samples or returns the
\* first batch.
SampleDecides(cfg, got, elapsed) ==
  IF got.err # NoError THEN "fail"
  ELSE IF Len(got.responses) = 0 THEN "empty"
  ELSE IF AbsDuration(MedianOffset(got.responses)) > cfg.DriftThreshold
  THEN IF elapsed < cfg.MaxDuration THEN "extra" ELSE "return"
  ELSE "return"

CombineAlways(first, got) == first \o got.responses

\* The responses Sample returns after the second QueryMultiple.
Combine(first, got) ==
  IF got.err = NoError /\ Len(got.responses) > 0
  THEN first \o got.responses
  ELSE first

NoCall ==
  [kind |-> "none", phase |-> 0, server |-> "", start |-> 0, first |-> <<>>,
   decided |-> "none", extra |-> NoFrame]

NoSMReturn == [by |-> "none", responses |-> <<>>, err |-> NoError]

\* The context of the QueryMultiple in progress is done.
SamplingCtxDone ==
  smCancelled \/ (qm.deadline # NoDeadline /\ smNow >= qm.deadline)

SamplingCtxErr == IF smCancelled THEN Canceled ELSE DeadlineExceeded

SamplerInit ==
  /\ CBQuiet
  /\ WPQuiet
  /\ RLQuiet
  /\ DNSQuiet
  /\ ScrapeQuiet
  /\ ColQuiet
  /\ PoolQuiet
  /\ QAQuiet
  /\ ValidatorQuiet
  /\ RegQuiet
  /\ CQQuiet
  /\ StackQuiet
  /\ BPQuiet
  /\ smCfg \in {NewAdaptiveSampler(c) : c \in SamplerConfigs}
  /\ smNow = 0
  /\ smCancelled = FALSE
  /\ smCall = NoCall
  /\ qm = NoFrame
  /\ smRet = NoSMReturn

\* A caller calls Client.QueryMultiple(ctx, server, count).
CallQueryMultiple(server, count) ==
  /\ smCall.kind = "none"
  /\ smCall' = [NoCall EXCEPT !.kind = "QueryMultiple", !.server = server]
  /\ qm' = NewFrame(server, count, NoDeadline)
  /\ UNCHANGED <<smCfg, smNow, smCancelled, smRet, notSM>>

\* A caller calls Sample(ctx, server): the first QueryMultiple begins.
CallSample(server) ==
  /\ smCall.kind = "none"
  /\ smCall' = [NoCall EXCEPT !.kind = "Sample", !.phase = 1,
                              !.server = server, !.start = smNow]
  /\ qm' = NewFrame(server, smCfg.DefaultSamples, NoDeadline)
  /\ UNCHANGED <<smCfg, smNow, smCancelled, smRet, notSM>>

\* QueryMultiple reaches the top of its loop.
QMTop ==
  /\ qm.pc = "top"
  /\ qm' = LoopTop(qm, SamplingCtxDone, SamplingCtxErr)
  /\ UNCHANGED <<smCfg, smNow, smCancelled, smCall, smRet, notSM>>

\* Query returns: a response or an error; with a context that is done its
\* select may still take the response.
QMQueryReturns ==
  /\ qm.pc = "query"
  /\ \E outcome \in QueryOutcomes : qm' = AfterAttempt(qm, outcome)
  /\ UNCHANGED <<smCfg, smNow, smCancelled, smCall, smRet, notSM>>

\* The direct QueryMultiple returns to its caller.
ReturnQueryMultiple ==
  /\ smCall.kind = "QueryMultiple"
  /\ qm.pc = "returned"
  /\ smRet' = [by |-> "QueryMultiple", responses |-> qm.ret.responses,
               err |-> qm.ret.err]
  /\ smCall' = [smCall EXCEPT !.kind = "done"]
  /\ qm' = [qm EXCEPT !.pc = "idle"]
  /\ UNCHANGED <<smCfg, smNow, smCancelled, notSM>>

\* The first QueryMultiple of Sample has returned.
SampleAfterFirst ==
  /\ smCall.kind = "Sample" /\ smCall.phase = 1
  /\ qm.pc = "returned"
  /\ LET elapsed == smNow - smCall.start
         d == SampleDecides(smCfg, qm.ret, elapsed)
         noted == [smCall EXCEPT !.first = qm.ret.responses, !.decided = d]
     IN IF d = "extra"
        THEN /\ smCall' = [noted EXCEPT !.phase = 2]
             /\ qm' = NewFrame(smCall.server,
                               smCfg.HighDriftSamples - smCfg.DefaultSamples,
                               smNow + (smCfg.MaxDuration - elapsed))
             /\ smRet' = smRet
        ELSE /\ smCall' = [noted EXCEPT !.kind = "done"]
             /\ qm' = [qm EXCEPT !.pc = "idle"]
             /\ smRet' = [by |-> "Sample",
                          responses |-> IF d = "fail" THEN <<>>
                                        ELSE qm.ret.responses,
                          err |-> IF d = "fail" THEN qm.ret.err ELSE NoError]
  /\ UNCHANGED <<smCfg, smNow, smCancelled, notSM>>

\* The second QueryMultiple of Sample has returned.
SampleAfterExtra ==
  /\ smCall.kind = "Sample" /\ smCall.phase = 2
  /\ qm.pc = "returned"
  /\ smCall' = [smCall EXCEPT !.kind = "done", !.extra = qm]
  /\ qm' = [qm EXCEPT !.pc = "idle"]
  /\ smRet' = [by |-> "Sample", responses |-> Combine(smCall.first, qm.ret),
               err |-> NoError]
  /\ UNCHANGED <<smCfg, smNow, smCancelled, notSM>>

\* The caller's context is cancelled.
SMCancel ==
  /\ ~smCancelled
  /\ smCall.kind \in {"QueryMultiple", "Sample"}
  /\ smCancelled' = TRUE
  /\ UNCHANGED <<smCfg, smNow, smCall, qm, smRet, notSM>>

\* Time passes during a call.
SMTick ==
  /\ smNow < MaxSMTime
  /\ smCall.kind \in {"QueryMultiple", "Sample"}
  /\ smNow' = smNow + 1
  /\ UNCHANGED <<smCfg, smCancelled, smCall, qm, smRet, notSM>>

SamplerNext ==
  \/ \E server \in Servers, count \in 0..MaxCount :
       CallQueryMultiple(server, count)
  \/ \E server \in Servers : CallSample(server)
  \/ QMTop
  \/ QMQueryReturns
  \/ ReturnQueryMultiple
  \/ SampleAfterFirst
  \/ SampleAfterExtra
  \/ SMCancel
  \/ SMTick

SpecSampler == SamplerInit /\ [][SamplerNext]_vars

\* The offsets of the responses among what the Query calls returned, in order.
Successful(outcomes) ==
  LET ok == SelectSeq(outcomes, LAMBDA o : o.ok)
  IN [k \in 1..Len(ok) |-> ok[k].offset]

\* The step is a return of the QueryMultiple in progress.
QMReturns == qm.pc = "top" /\ qm'.pc = "returned"

\* C21: a QueryMultiple whose context is not done when it returns has called
\* Query exactly count times, one call after another whatever the earlier
\* calls returned, returns the responses of all the successful calls in
\* order, and fails only if none succeeded, with the error that names the
\* server and the count.
C21_QueryMultipleAttemptsAll ==
  [][(QMReturns /\ ~SamplingCtxDone)
       => /\ Len(qm.outcomes) = (IF qm.count > 0 THEN qm.count ELSE 0)
          /\ qm'.ret.responses = Successful(qm.outcomes)
          /\ (qm'.ret.err # NoError) <=> (Successful(qm.outcomes) = <<>>)
          /\ (qm'.ret.err # NoError)
               => qm'.ret.err = AllFailed(qm.server, qm.count)]_vars

\* A QueryMultiple of two attempts whose first attempt failed and whose
\* second succeeded returned the one response and no error.
C21_Witness ==
  /\ smRet.by = "QueryMultiple"
  /\ ~smCancelled
  /\ qm.count = 2
  /\ Len(qm.outcomes) = 2
  /\ qm.outcomes[1] = QueryFailed
  /\ qm.outcomes[2].ok
  /\ smRet.responses = <<qm.outcomes[2].offset>>
  /\ smRet.err = NoError

\* C22: when QueryMultiple finds its context done before an attempt, it calls
\* Query no more and returns the responses appended so far, with ctx.Err();
\* Query is only called from the top of the loop with a context not done.
C22_CancelledBetweenQueries ==
  [][/\ (qm.pc = "top" /\ qm.i < qm.count /\ SamplingCtxDone /\ qm' # qm)
          => /\ qm'.pc = "returned"
             /\ qm'.outcomes = qm.outcomes
             /\ qm'.ret.responses = qm.responses
             /\ qm'.ret.err = SamplingCtxErr
     /\ (qm'.pc = "query" /\ qm.pc # "query")
          => (qm.pc = "top" /\ ~SamplingCtxDone)]_vars

\* A QueryMultiple of two attempts was cancelled after its first attempt had
\* succeeded: it returned that response and made no second attempt.
C22_Witness ==
  /\ smRet.by = "QueryMultiple"
  /\ smCancelled
  /\ qm.count = 2
  /\ Len(qm.outcomes) = 1
  /\ Len(smRet.responses) = 1
  /\ smRet.responses[1] = qm.outcomes[1].offset
  /\ smRet.err = Canceled

\* The step is the return of the first, of the second QueryMultiple to Sample.
FirstBatchReturns ==
  smCall.kind = "Sample" /\ smCall.phase = 1 /\ smCall' # smCall

ExtraBatchReturns ==
  smCall.kind = "Sample" /\ smCall.phase = 2 /\ smCall' # smCall

\* The first batch shows a high drift within the time budget.
HighDrift ==
  /\ qm.ret.err = NoError
  /\ Len(qm.ret.responses) > 0
  /\ AbsDuration(MedianOffset(qm.ret.responses)) > smCfg.DriftThreshold
  /\ smNow - smCall.start < smCfg.MaxDuration

\* C23 (as stated): with a first batch of high drift within the time budget
\* Sample makes high_drift_samples - default_samples further attempts and
\* returns the responses of both batches; otherwise it makes none.
C23_Original ==
  [][/\ FirstBatchReturns => ((smCall'.phase = 2) <=> HighDrift)
     /\ ExtraBatchReturns
          => /\ Len(qm.outcomes) = smCfg.HighDriftSamples - smCfg.DefaultSamples
             /\ smRet'.responses = smCall.first \o Successful(qm.outcomes)
             /\ smRet'.err = NoError]_vars

\* C23 (amended): exactly with a first batch of high drift within the time
\* budget Sample calls QueryMultiple again, for high_drift_samples -
\* default_samples attempts under the deadline start + max_duration. It
\* returns both batches together when that call returns no error and at
\* least one response, and the first batch alone otherwise; when the context
\* is not done at the end of the call and the count is positive, all the
\* attempts were made and every response obtained is returned.
C23_AdditionalSamples ==
  [][/\ FirstBatchReturns
          => /\ (smCall'.phase = 2) <=> HighDrift
             /\ (smCall'.phase = 2)
                  => /\ qm'.count = smCfg.HighDriftSamples - smCfg.DefaultSamples
                     /\ qm'.deadline = smCall.start + smCfg.MaxDuration
                     /\ qm'.outcomes = <<>>
             /\ (smCall'.phase # 2 /\ qm.ret.err = NoError)
                  => smRet'.responses = qm.ret.responses
     /\ ExtraBatchReturns
          => /\ smRet'.err = NoError
             /\ smCall.decided = "extra"
             /\ (qm.ret.err = NoError /\ Len(qm.ret.responses) > 0)
                  => smRet'.responses = smCall.first \o qm.ret.responses
             /\ (qm.ret.err # NoError \/ Len(qm.ret.responses) = 0)
                  => smRet'.responses = smCall.first
             /\ (~SamplingCtxDone /\ qm.count > 0)
                  => /\ Len(qm.outcomes) = qm.count
                     /\ smRet'.responses = smCall.first \o Successful(qm.outcomes)]_vars

\* With two default and four high-drift samples, a first batch of median
\* 80 ms was followed by two further attempts, and the four responses were
\* returned together.
C23_Witness ==
  /\ smRet.by = "Sample"
  /\ smCfg.DefaultSamples = 2 /\ smCfg.HighDriftSamples = 4
  /\ smCall.first = <<80, 80>>
  /\ Len(smCall.extra.outcomes) = 2
  /\ smRet.responses = <<80, 80, 4, 80>>
  /\ smRet.err = NoError

\* C24 (as stated): when no query of the first phase succeeds, Sample returns
\* an empty batch and no error.
C24_Original ==
  [][(FirstBatchReturns /\ Successful(qm.outcomes) = <<>>)
       => smRet'.responses = <<>> /\ smRet'.err = NoError]_vars

\* C24 (amended): when no query of the first phase succeeds, QueryMultiple
\* fails and Sample returns no batch and that error, the all-queries-failed
\* error naming the server and default_samples unless the context was done,
\* and takes no additional samples.
C24_NoneSucceeded ==
  [][(FirstBatchReturns /\ Successful(qm.outcomes) = <<>>)
       => /\ smCall'.kind = "done"
          /\ smRet'.by = "Sample"
          /\ smRet'.responses = <<>>
          /\ smRet'.err # NoError
          /\ smRet'.err = qm.ret.err
          /\ (Len(qm.outcomes) = smCfg.DefaultSamples)
               => smRet'.err = AllFailed(smCall.server, smCfg.DefaultSamples)]_vars

\* Both queries of the first phase failed and Sample returned the error of
\* QueryMultiple.
C24_Witness ==
  /\ smRet.by = "Sample"
  /\ smCall.decided = "fail"
  /\ ~smCancelled
  /\ qm.outcomes = <<QueryFailed, QueryFailed>>
  /\ smRet.responses = <<>>
  /\ smRet.err = AllFailed(smCall.server, 2)

(***************************************************************************)
(* Pool: NewPool, Resolve, selectServersByStrategy and Query.              *)
(***************************************************************************)

MaxResolved == 3
MaxPoolTime == 3
MaxPoolCalls == 2

\* The addresses the DNS can answer for the pool's name, and the fallback.
Addresses == {"a1", "a2", "a3"}

Fallbacks == {"", "fallback.example"}

\* What DNSCache.Resolve returns for the pool's name: addresses, or an error.
DNSFailure == [ips |-> <<>>, err |-> "lookup failed"]

DNSResults ==
  {[ips |-> l, err |-> "nil"] :
     l \in UNION {[1..n -> Addresses] : n \in 1..MaxResolved}}
  \cup {DNSFailure}

\* NewPool: an empty strategy is best_n, zero maxServers is 4.
NewPool(strategy, maxServers, fallback) ==
  [strategy |-> IF strategy = "" THEN "best_n" ELSE strategy,
   maxServers |-> IF maxServers = 0 THEN 4 ELSE maxServers,
   fallback |-> fallback,
   useWorkerPool |-> FALSE]

\* EnableWorkerPool
EnableWorkerPool(p) == [p EXCEPT !.useWorkerPool = TRUE]

\* The pools of a valid configuration: validateNTP wants max_servers in 1..20,
\* NewPool takes 0 as well.
Pools ==
  LET made == {NewPool(s, n, f) : s \in {"", "all", "round_robin", "best_n"},
                                  n \in 0..2, f \in Fallbacks}
  IN made \cup {EnableWorkerPool(p) : p \in {q \in made : q.strategy = "all"}}

ResolveNeverFallsBack(p, dns) ==
  IF dns.err # "nil"
  THEN [servers |-> <<>>, err |-> "failed to resolve pool"]
  ELSE IF Len(dns.ips) > p.maxServers
  THEN [servers |-> SubSeq(dns.ips, 1, p.maxServers), err |-> "nil"]
  ELSE [servers |-> dns.ips, err |-> "nil"]

\* Pool.Resolve
Resolve(p, dns) ==
  IF dns.err # "nil"
  THEN IF p.fallback # ""
       THEN [servers |-> <<p.fallback>>, err |-> "nil"]
       ELSE [servers |-> <<>>, err |-> "failed to resolve pool"]
  ELSE IF Len(dns.ips) > p.maxServers
  THEN [servers |-> SubSeq(dns.ips, 1, p.maxServers), err |-> "nil"]
  ELSE [servers |-> dns.ips, err |-> "nil"]

selectServersRoundRobinFirst(p, servers, unix) ==
  IF p.strategy = "all" THEN servers
  ELSE IF p.strategy = "round_robin"
  THEN IF Len(servers) = 0 THEN <<>> ELSE <<servers[1]>>
  ELSE servers

\* Pool.selectServersByStrategy, unix being time.Now().Unix()
selectServersByStrategy(p, servers, unix) ==
  IF p.strategy = "all" THEN servers
  ELSE IF p.strategy = "round_robin"
  THEN IF Len(servers) = 0 THEN <<>>
       ELSE <<servers[(unix % Len(servers)) + 1]>>
  ELSE servers

\* The sequential loop of Pool.Query from the i-th selected server on: the
\* context is found done before the server at position stop + 1; badAt holds
\* the positions whose Query fails.
RECURSIVE queryLoop(_, _, _, _, _, _, _)
queryLoop(p, selected, badAt, stop, i, contacted, active) ==
  IF i > Len(selected) THEN [contacted |-> contacted, active |-> active,
                             err |-> "nil"]
  ELSE IF i > stop THEN [contacted |-> contacted, active |-> active,
                         err |-> "context canceled"]
  ELSE IF i \in badAt
  THEN queryLoop(p, selected, badAt, stop, i + 1,
                 Append(contacted, selected[i]), active)
  ELSE IF p.strategy = "best_n" /\ active + 1 >= p.maxServers
  THEN [contacted |-> Append(contacted, selected[i]), active |-> active + 1,
        err |-> "nil"]
  ELSE queryLoop(p, selected, badAt, stop, i + 1,
                 Append(contacted, selected[i]), active + 1)

\* WorkerPool.Execute as Pool.Query sees it: the context is found done
\* before the job at position stop + 1 is submitted, and Execute fails with
\* the context's error; else every selected server is a job and has a result.
\* On a failure the jobs submitted before are taken as performed.
ExecuteOutcome(selected, badAt, stop) ==
  IF stop < Len(selected)
    THEN [contacted |-> SubSeq(selected, 1, stop), ok |-> 0,
          err |-> "context canceled"]
    ELSE [contacted |-> selected, ok |-> Cardinality(DOMAIN selected \ badAt),
          err |-> "nil"]

PoolQueryResultReturnsExecuteError(p, dns, unix, badAt, stop) ==
  LET r == Resolve(p, dns)
      selected == selectServersByStrategy(p, r.servers, unix)
  IN IF r.err # "nil"
     THEN [op |-> "Query", servers |-> <<>>, selected |-> <<>>,
           contacted |-> <<>>, active |-> 0, err |-> r.err, logged |-> "nil"]
     ELSE IF p.useWorkerPool /\ p.strategy = "all"
     THEN LET x == ExecuteOutcome(selected, badAt, stop)
          IN [op |-> "Query", servers |-> r.servers, selected |-> selected,
              contacted |-> x.contacted, active |-> x.ok, err |-> x.err,
              logged |-> "nil"]
     ELSE LET q == queryLoop(p, selected, badAt, stop, 1, <<>>, 0)
          IN [op |-> "Query", servers |-> r.servers, selected |-> selected,
              contacted |-> q.contacted, active |-> q.active, err |-> q.err,
              logged |-> "nil"]

\* Pool.Query: Resolve, the selection, and the queries, through the worker
\* pool's Execute (every selected server is a job; an error of Execute is
\* logged and its results are dropped) or one after another.
PoolQueryResult(p, dns, unix, badAt, stop) ==
  LET r == Resolve(p, dns)
      selected == selectServersByStrategy(p, r.servers, unix)
  IN IF r.err # "nil"
     THEN [op |-> "Query", servers |-> <<>>, selected |-> <<>>,
           contacted |-> <<>>, active |-> 0, err |-> r.err, logged |-> "nil"]
     ELSE IF p.useWorkerPool /\ p.strategy = "all"
     THEN LET x == ExecuteOutcome(selected, badAt, stop)
          IN [op |-> "Query", servers |-> r.servers, selected |-> selected,
              contacted |-> x.contacted,
              active |-> IF x.err = "nil" THEN x.ok ELSE 0, err |-> "nil",
              logged |-> x.err]
     ELSE LET q == queryLoop(p, selected, badAt, stop, 1, <<>>, 0)
          IN [op |-> "Query", servers |-> r.servers, selected |-> selected,
              contacted |-> q.contacted, active |-> q.active, err |-> q.err,
              logged |-> "nil"]

NoPoolReturn ==
  [op |-> "none", servers |-> <<>>, selected |-> <<>>, contacted |-> <<>>,
   active |-> 0, err |-> "nil", logged |-> "nil", dns |-> DNSFailure,
   unix |-> 0, full |-> TRUE]

PoolInit ==
  /\ CBQuiet
  /\ WPQuiet
  /\ RLQuiet
  /\ DNSQuiet
  /\ ScrapeQuiet
  /\ ColQuiet
  /\ SamplerQuiet
  /\ QAQuiet
  /\ ValidatorQuiet
  /\ RegQuiet
  /\ CQQuiet
  /\ StackQuiet
  /\ BPQuiet
  /\ pool \in Pools
  /\ poolNow = 0
  /\ poolRet = NoPoolReturn
  /\ poolCalls = 0

\* A call of Pool.Resolve.
PoolResolve ==
  /\ poolRet.op = "none"
  /\ poolCalls < MaxPoolCalls
  /\ poolCalls' = poolCalls + 1
  /\ \E dns \in DNSResults :
       LET r == Resolve(pool, dns)
       IN poolRet' = [op |-> "Resolve", servers |-> r.servers,
                      selected |-> <<>>, contacted |-> <<>>, active |-> 0,
                      err |-> r.err, logged |-> "nil", dns |-> dns,
                      unix |-> poolNow, full |-> TRUE]
  /\ UNCHANGED <<pool, poolNow, notPool>>

\* A call of Pool.Query.
PoolQuery ==
  /\ poolRet.op = "none"
  /\ poolCalls < MaxPoolCalls
  /\ poolCalls' = poolCalls + 1
  /\ \E dns \in DNSResults :
     \E badAt \in SUBSET (DOMAIN dns.ips), stop \in 0..Len(dns.ips) :
       LET r == PoolQueryResult(pool, dns, poolNow, badAt, stop)
       IN poolRet' = [op |-> "Query", servers |-> r.servers,
                      selected |-> r.selected, contacted |-> r.contacted,
                      active |-> r.active, err |-> r.err,
                      logged |-> r.logged, dns |-> dns, unix |-> poolNow,
                      full |-> (stop >= Len(r.selected))]
  /\ UNCHANGED <<pool, poolNow, notPool>>

\* The caller takes the result.
PoolReturn ==
  /\ poolRet.op # "none"
  /\ poolRet' = NoPoolReturn
  /\ UNCHANGED <<pool, poolNow, poolCalls, notPool>>

\* A second passes.
PoolTick ==
  /\ poolNow < MaxPoolTime
  /\ poolNow' = poolNow + 1
  /\ UNCHANGED <<pool, poolRet, poolCalls, notPool>>

PoolNext ==
  \/ PoolResolve
  \/ PoolQuery
  \/ PoolReturn
  \/ PoolTick

SpecPool == PoolInit /\ [][PoolNext]_vars

\* The first n entries of a list, the whole list if it is shorter.
Prefix(l, n) == IF Len(l) > n THEN SubSeq(l, 1, n) ELSE l

\* C25: when the resolution of the pool's name fails, Resolve returns the
\* list of the fallback alone and no error if a fallback is configured, and
\* fails if none is.
C25_ResolveFallback ==
  (poolRet.op = "Resolve" /\ poolRet.dns.err # "nil")
  => /\ pool.fallback # ""
          => poolRet.servers = <<pool.fallback>> /\ poolRet.err = "nil"
     /\ pool.fallback = ""
          => poolRet.servers = <<>> /\ poolRet.err # "nil"

\* The resolution failed for a pool with a fallback, and the fallback was
\* returned.
C25_Witness ==
  /\ poolRet.op = "Resolve"
  /\ poolRet.dns = DNSFailure
  /\ pool.fallback = "fallback.example"
  /\ poolRet.servers = <<"fallback.example">>
  /\ poolRet.err = "nil"

\* C26: a Query of the pool contacts max_servers addresses at most, each
\* taken from the first max_servers resolved addresses: all of them in
\* resolved order with the strategies all and best_n (when the context stays
\* live), and with round_robin the single one at index unix time mod n, n
\* being the length of that prefix.
C26_AtMostMaxServers ==
  /\ Len(poolRet.contacted) <= pool.maxServers
  /\ (poolRet.op = "Query" /\ poolRet.dns.err = "nil")
       => LET prefix == Prefix(poolRet.dns.ips, pool.maxServers)
              n == Len(prefix)
          IN /\ poolRet.servers = prefix
             /\ \A k \in DOMAIN poolRet.contacted :
                  \E j \in 1..n : poolRet.contacted[k] = prefix[j]
             /\ pool.strategy \in {"all", "best_n"}
                  => /\ poolRet.selected = prefix
                     /\ poolRet.full => poolRet.contacted = prefix
             /\ pool.strategy = "round_robin"
                  => /\ poolRet.selected = <<prefix[(poolRet.unix % n) + 1]>>
                     /\ poolRet.full => poolRet.contacted = poolRet.selected

\* A round_robin pool of max_servers 2 resolved three addresses at second 3:
\* it contacted the second address alone.
C26_Witness ==
  /\ poolRet.op = "Query"
  /\ pool.strategy = "round_robin" /\ pool.maxServers = 2
  /\ poolRet.dns.ips = <<"a1", "a2", "a3">>
  /\ poolRet.unix = 3
  /\ poolRet.contacted = <<"a2">>

(***************************************************************************)
(* WorkerPool.QueryAll and CalculateStatistics.                            *)
(***************************************************************************)

MaxSamples == 2
MaxQACalls == 2

\* A ratio in thousandths: 1000 is 1.0.
One == 1000

\* The JobResults a job of n samples can yield: QueryMultiple returns at
\* least one response and no error, no response and the error of n failed
\* queries, or the responses collected so far and the error of the context;
\* a worker that finds the context done reports that error alone.
JobResults(n) ==
  {[Responses |-> k, Error |-> "nil"] : k \in 1..n}
  \cup {[Responses |-> 0, Error |-> "all queries failed"]}
  \cup {[Responses |-> k, Error |-> "context canceled"] : k \in 0..(n - 1)}

\* The maps Execute can return for n samples: a result for some servers, one
\* at least.
ExecuteResults(n) ==
  UNION {[ss -> JobResults(n)] : ss \in SUBSET Servers \ {{}}}

\* calculatePacketLoss
calculatePacketLoss(received, total) ==
  IF total = 0 THEN 0
  ELSE LET lost == IF total - received < 0 THEN 0 ELSE total - received
       IN (lost * One) \div total

\* CalculateStatistics, its count and its loss ratio.
CalculateStatistics(responses, totalSamples) ==
  IF responses = 0
  THEN [SamplesCount |-> 0, PacketLossRatio |-> One]
  ELSE [SamplesCount |-> responses,
        PacketLossRatio |-> calculatePacketLoss(responses, totalSamples)]

\* The Statistics QueryAll stores for one result.
StatsOf(result, n) ==
  IF result.Error # "nil"
  THEN [SamplesCount |-> 0, PacketLossRatio |-> 0]
  ELSE CalculateStatistics(result.Responses, n)

\* WorkerPool.QueryAll after Execute returned results.
QueryAllStats(results, n) ==
  [server \in DOMAIN results |-> StatsOf(results[server], n)]

NoStats == [err |-> "none", stats |-> <<>>]

QAInit ==
  /\ CBQuiet
  /\ WPQuiet
  /\ RLQuiet
  /\ DNSQuiet
  /\ ScrapeQuiet
  /\ ColQuiet
  /\ SamplerQuiet
  /\ PoolQuiet
  /\ ValidatorQuiet
  /\ RegQuiet
  /\ CQQuiet
  /\ StackQuiet
  /\ BPQuiet
  /\ qaPc = "idle"
  /\ qaSamples = 0
  /\ qaResults = <<>>
  /\ qaRet = NoStats
  /\ qaCalls = 0

\* QueryAll is called and calls Execute.
QueryAll(n) ==
  /\ qaPc = "idle"
  /\ qaCalls < MaxQACalls
  /\ qaCalls' = qaCalls + 1
  /\ qaPc' = "execute"
  /\ qaSamples' = n
  /\ qaResults' = <<>>
  /\ qaRet' = NoStats
  /\ UNCHANGED notQA

\* Execute fails: QueryAll returns its error.
ExecuteFails ==
  /\ qaPc = "execute"
  /\ qaPc' = "idle"
  /\ \E e \in {"no servers provided", "worker pool already running",
               "no results collected"} :
       qaRet' = [err |-> e, stats |-> <<>>]
  /\ UNCHANGED <<qaSamples, qaResults, qaCalls, notQA>>

\* Execute returns its results.
ExecuteReturns ==
  /\ qaPc = "execute"
  /\ qaPc' = "stats"
  /\ qaResults' \in ExecuteResults(qaSamples)
  /\ UNCHANGED <<qaSamples, qaRet, qaCalls, notQA>>

\* QueryAll builds the statistics and returns them.
QueryAllReturns ==
  /\ qaPc = "stats"
  /\ qaPc' = "idle"
  /\ qaRet' = [err |-> "nil", stats |-> QueryAllStats(qaResults, qaSamples)]
  /\ UNCHANGED <<qaSamples, qaResults, qaCalls, notQA>>

QANext ==
  \/ \E n \in 1..MaxSamples : QueryAll(n)
  \/ ExecuteFails
  \/ ExecuteReturns
  \/ QueryAllReturns

SpecQA == QAInit /\ [][QANext]_vars

\* C27: QueryAll reports samples_count 0 and packet_loss_ratio 1.0 for every
\* server whose job yielded no successful sample.
C27_Claim ==
  (qaPc = "idle" /\ qaRet.err = "nil")
  => \A server \in DOMAIN qaResults :
       qaResults[server].Responses = 0
       => /\ qaRet.stats[server].SamplesCount = 0
          /\ qaRet.stats[server].PacketLossRatio = One

(***************************************************************************)
(* Validator: Validate and GetSuspicionReason.  Durations are in           *)
(* milliseconds, trust scores in hundredths.                               *)
(***************************************************************************)

Hour == 3600000

TenSeconds == 10000

\* The Responses a query can deliver: each field on both sides of the
\* thresholds of the validator.
Responses ==
  [Stratum : {0, 1, 15, 16},
   KissCode : {"", "RATE"},
   Offset : {5, Hour - 1, Hour, Hour + 1, -Hour, -(Hour + 1)},
   RTT : {-1, 50, TenSeconds, TenSeconds + 1},
   LeapIndicator : {0, 3},
   RootDelay : {-1, 10},
   RootDispersion : {-1, 5},
   ZeroReferenceTime : BOOLEAN,
   ValidateError : {"nil", "invalid"}]

\* NewValidator
NewValidator ==
  [maxClockSkew |-> Hour, minStratum |-> 1, maxStratum |-> 15,
   validateRefID |-> TRUE, checkKissOfDeath |-> TRUE]

\* Response.IsKissOfDeath
IsKissOfDeath(resp) == resp.KissCode # ""

\* Response.IsValid
IsValid(resp) == resp.ValidateError = "nil"

\* One check of Validate: when cond holds, the message is added to the errors
\* or the warnings and the penalty is deducted.
Check(result, cond, isError, msg, penalty) ==
  IF ~cond THEN result
  ELSE [Valid |-> IF isError THEN FALSE ELSE result.Valid,
        Errors |-> IF isError THEN Append(result.Errors, msg)
                   ELSE result.Errors,
        Warnings |-> IF isError THEN result.Warnings
                     ELSE Append(result.Warnings, msg),
        TrustScore |-> result.TrustScore - penalty]

\* The clamp of the trust score to [0, 1].
ClampScore(result) ==
  [result EXCEPT !.TrustScore = IF @ < 0 THEN 0 ELSE IF @ > 100 THEN 100 ELSE @]

\* Validator.Validate, with the test of the clock offset as a parameter.
ValidateWith(v, resp, skewed) ==
  LET r0 == [Valid |-> TRUE, Errors |-> <<>>, Warnings |-> <<>>,
             TrustScore |-> 100]
      r1 == Check(r0, resp.Stratum < v.minStratum, TRUE, "stratum below minimum", 30)
      r2 == Check(r1, resp.Stratum > v.maxStratum, TRUE, "stratum above maximum", 30)
      r3 == Check(r2, v.checkKissOfDeath /\ IsKissOfDeath(resp), TRUE,
                  "Kiss-of-Death received", 50)
      r4 == Check(r3, skewed, FALSE, "large clock offset", 20)
      r5 == Check(r4, resp.RTT > TenSeconds, FALSE, "high RTT", 10)
      r6 == Check(r5, resp.RTT < 0, TRUE, "negative RTT", 30)
      r7 == Check(r6, resp.LeapIndicator = 3, FALSE, "clock not synchronized", 20)
      r8 == Check(r7, resp.RootDelay < 0, TRUE, "negative root delay", 20)
      r9 == Check(r8, resp.RootDispersion < 0, TRUE, "negative root dispersion", 20)
      r10 == Check(r9, resp.ZeroReferenceTime, FALSE, "zero reference time", 10)
  IN ClampScore(r10)

ValidateWarnsAtThreshold(v, resp) ==
  ValidateWith(v, resp, AbsDuration(resp.Offset) >= v.maxClockSkew)

\* Validator.Validate
Validate(v, resp) ==
  ValidateWith(v, resp, AbsDuration(resp.Offset) > v.maxClockSkew)

\* Validator.GetSuspicionReason
GetSuspicionReason(v, resp) ==
  IF resp.Stratum = 0 THEN "invalid_stratum"
  ELSE IF resp.Stratum > v.maxStratum THEN "stratum_too_high"
  ELSE IF IsKissOfDeath(resp) THEN "kod_received"
  ELSE IF AbsDuration(resp.Offset) > v.maxClockSkew THEN "time_mismatch"
  ELSE IF resp.RTT > TenSeconds THEN "high_rtt"
  ELSE IF ~IsValid(resp) THEN "validation_failed"
  ELSE "unknown"

NoResult == [Valid |-> TRUE, Errors |-> <<"none">>, Warnings |-> <<"none">>,
             TrustScore |-> -1]

ValidatorInit ==
  /\ CBQuiet
  /\ WPQuiet
  /\ RLQuiet
  /\ DNSQuiet
  /\ ScrapeQuiet
  /\ ColQuiet
  /\ SamplerQuiet
  /\ PoolQuiet
  /\ QAQuiet
  /\ RegQuiet
  /\ CQQuiet
  /\ StackQuiet
  /\ BPQuiet
  /\ vResp \in Responses
  /\ vResult = NoResult
  /\ vReason = "none"

\* Validate is called on the response.
CallValidate ==
  /\ vResult = NoResult
  /\ vResult' = Validate(NewValidator, vResp)
  /\ UNCHANGED <<vResp, vReason, notValidator>>

\* GetSuspicionReason is called on the response.
CallGetSuspicionReason ==
  /\ vReason = "none"
  /\ vReason' = GetSuspicionReason(NewValidator, vResp)
  /\ UNCHANGED <<vResp, vResult, notValidator>>

ValidatorNext ==
  \/ CallValidate
  \/ CallGetSuspicionReason

SpecValidator == ValidatorInit /\ [][ValidatorNext]_vars

\* C29: GetSuspicionReason returns the first tag that matches, in the order
\* invalid_stratum (stratum 0 and no kiss code), stratum_too_high (above 15),
\* kod_received (a kiss code), time_mismatch (|offset| above 1 h), high_rtt
\* (above 10 s), validation_failed, unknown; a response of stratum 0 with a
\* kiss code is tagged kod_received.
C29_Claim ==
  vReason # "none"
  => vReason =
       IF vResp.Stratum = 0 /\ vResp.KissCode = "" THEN "invalid_stratum"
       ELSE IF vResp.Stratum > 15 THEN "stratum_too_high"
       ELSE IF vResp.KissCode # "" THEN "kod_received"
       ELSE IF AbsDuration(vResp.Offset) > Hour THEN "time_mismatch"
       ELSE IF vResp.RTT > TenSeconds THEN "high_rtt"
       ELSE IF vResp.ValidateError # "nil" THEN "validation_failed"
       ELSE "unknown"

\* The result has the warning of the clock offset.
OffsetWarned ==
  \E i \in DOMAIN vResult.Warnings : vResult.Warnings[i] = "large clock offset"

\* C30 (as stated): a response whose |offset| is exactly 1 h gets the warning
\* of the clock offset, and the warning leaves it valid.
C30_Original ==
  (vResult # NoResult /\ AbsDuration(vResp.Offset) = Hour)
  => /\ OffsetWarned
     /\ vResult.Valid <=> vResult.Errors = <<>>

\* C30: a response gets the warning of the clock offset exactly when its
\* |offset| is above 1 h, so none at exactly 1 h, and the warning leaves it
\* valid: it is valid exactly when no error was found.
C30_OffsetWarning ==
  vResult # NoResult
  => /\ OffsetWarned <=> AbsDuration(vResp.Offset) > Hour
     /\ AbsDuration(vResp.Offset) = Hour => ~OffsetWarned
     /\ vResult.Valid <=> vResult.Errors = <<>>

\* A sound response with an offset of exactly 1 h was validated: valid, full
\* trust, no warning.
C30_Witness ==
  /\ vResult # NoResult
  /\ vResp.Offset = -Hour
  /\ vResult.Valid
  /\ vResult.Warnings = <<>>
  /\ vResult.TrustScore = 100

(***************************************************************************)
(* getBreakerForServer and getLimiterForServer: double-checked insertion   *)
(* into the per-target map, by concurrent callers.                         *)
(***************************************************************************)

MaxCallers == 3

RegCallers == 1..MaxCallers

\* No instance: the zero value of a map lookup.
NoInstance == 0

Unlocked == [readers |-> 0, writer |-> 0]

\* The instances created so far: each creation takes the next number.
Created(counts) == DOMAIN counts

InsertWithoutDoubleCheck(m, counts, server) ==
  LET new == Len(counts) + 1
  IN [instance |-> new, map |-> [m EXCEPT ![server] = new],
      counts |-> Append(counts, 0)]

\* The part under the write lock: the second lookup, and the creation and
\* insertion of a new instance if the target has none.
Insert(m, counts, server) ==
  IF m[server] # NoInstance
  THEN [instance |-> m[server], map |-> m, counts |-> counts]
  ELSE LET new == Len(counts) + 1
       IN [instance |-> new, map |-> [m EXCEPT ![server] = new],
           counts |-> Append(counts, 0)]

RegIdle ==
  [pc |-> "idle", server |-> "none", instance |-> NoInstance, missed |-> FALSE]

RegInit ==
  /\ CBQuiet
  /\ WPQuiet
  /\ RLQuiet
  /\ DNSQuiet
  /\ ScrapeQuiet
  /\ ColQuiet
  /\ SamplerQuiet
  /\ PoolQuiet
  /\ QAQuiet
  /\ ValidatorQuiet
  /\ CQQuiet
  /\ StackQuiet
  /\ BPQuiet
  /\ regMap = [s \in Servers |-> NoInstance]
  /\ regLock = Unlocked
  /\ regCaller = [c \in RegCallers |-> RegIdle]
  /\ regCounts = <<>>

\* mu.RLock() of a caller's first call for a target.
RegRLock(c, s) ==
  /\ regCaller[c].pc = "idle"
  /\ regLock.writer = 0
  /\ regLock' = [regLock EXCEPT !.readers = @ + 1]
  /\ regCaller' = [regCaller EXCEPT ![c] = [pc |-> "rlocked", server |-> s,
                                            instance |-> NoInstance,
                                            missed |-> FALSE]]
  /\ UNCHANGED <<regMap, regCounts, notReg>>

\* The first lookup and mu.RUnlock(): the instance is returned if it exists.
RegRead(c) ==
  /\ regCaller[c].pc = "rlocked"
  /\ regLock' = [regLock EXCEPT !.readers = @ - 1]
  /\ LET found == regMap[regCaller[c].server]
     IN regCaller' =
          [regCaller EXCEPT ![c] =
             IF found # NoInstance
             THEN [pc |-> "have", server |-> regCaller[c].server,
                   instance |-> found, missed |-> FALSE]
             ELSE [pc |-> "miss", server |-> regCaller[c].server,
                   instance |-> NoInstance, missed |-> TRUE]]
  /\ UNCHANGED <<regMap, regCounts, notReg>>

\* mu.Lock()
RegLock(c) ==
  /\ regCaller[c].pc = "miss"
  /\ regLock = Unlocked
  /\ regLock' = [regLock EXCEPT !.writer = c]
  /\ regCaller' = [regCaller EXCEPT ![c].pc = "locked"]
  /\ UNCHANGED <<regMap, regCounts, notReg>>

\* The double check, the insertion and the deferred mu.Unlock().
RegInsert(c) ==
  /\ regCaller[c].pc = "locked"
  /\ LET r == Insert(regMap, regCounts, regCaller[c].server)
     IN /\ regMap' = r.map
        /\ regCounts' = r.counts
        /\ regCaller' = [regCaller EXCEPT ![c].pc = "have",
                                          ![c].instance = r.instance]
  /\ regLock' = Unlocked
  /\ UNCHANGED notReg

\* The caller uses the instance it got: the request is counted on it.
RegUse(c) ==
  /\ regCaller[c].pc = "have"
  /\ regCounts' = [regCounts EXCEPT ![regCaller[c].instance] = @ + 1]
  /\ regCaller' = [regCaller EXCEPT ![c].pc = "done"]
  /\ UNCHANGED <<regMap, regLock, notReg>>

RegNext ==
  \/ \E c \in RegCallers, s \in Servers : RegRLock(c, s)
  \/ \E c \in RegCallers : RegRead(c)
  \/ \E c \in RegCallers : RegLock(c)
  \/ \E c \in RegCallers : RegInsert(c)
  \/ \E c \in RegCallers : RegUse(c)

SpecReg == RegInit /\ [][RegNext]_vars

\* The callers that asked for target s and used their instance.
UsedFor(s) ==
  {c \in RegCallers : regCaller[c].pc = "done" /\ regCaller[c].server = s}

\* C31: under any interleaving of first calls, one instance at most is
\* created for a target, every caller of the target holds the instance the
\* map has for it, and every request is counted on that instance.
C31_OneInstancePerTarget ==
  /\ Len(regCounts) <= Cardinality({s \in Servers : regMap[s] # NoInstance})
  /\ \A c \in RegCallers :
       regCaller[c].pc \in {"have", "done"}
       => regCaller[c].instance = regMap[regCaller[c].server]
  /\ \A s \in Servers :
       regMap[s] # NoInstance
       => regCounts[regMap[s]] = Cardinality(UsedFor(s))

\* All callers made their first call for s1 concurrently: all of them missed
\* in the first lookup, and the one instance counted every request.
C31_Witness ==
  /\ \A c \in RegCallers :
       /\ regCaller[c].pc = "done"
       /\ regCaller[c].server = "s1"
       /\ regCaller[c].missed
  /\ Len(regCounts) = 1
  /\ regCounts[regMap["s1"]] = MaxCallers

(***************************************************************************)
(* Client.Query: the exchange in a goroutine, the buffered result channel  *)
(* and the select on the context.                                          *)
(***************************************************************************)

MaxQueries == 2

Queries == 1..MaxQueries

\* make(chan queryResult, 1)
ResultChanCap == 1

CanSendUnbuffered(ch, receiving) == receiving

\* A send on the result channel goes through when the buffer has room or a
\* receiver waits.
CanSend(ch, receiving) == Len(ch) < ResultChanCap \/ receiving

NoQueryReturn == [err |-> "none", task |-> "none"]

CQInit ==
  /\ CBQuiet
  /\ WPQuiet
  /\ RLQuiet
  /\ DNSQuiet
  /\ ScrapeQuiet
  /\ ColQuiet
  /\ SamplerQuiet
  /\ PoolQuiet
  /\ QAQuiet
  /\ ValidatorQuiet
  /\ RegQuiet
  /\ StackQuiet
  /\ BPQuiet
  /\ cqPc = [q \in Queries |-> "idle"]
  /\ cqTask = [q \in Queries |-> "none"]
  /\ resultChan = [q \in Queries |-> <<>>]
  /\ cqCtx = [q \in Queries |-> FALSE]
  /\ cqRet = [q \in Queries |-> NoQueryReturn]

\* Query makes the channel, starts the goroutine and reaches the select.
CQStart(q) ==
  /\ cqPc[q] = "idle"
  /\ cqPc' = [cqPc EXCEPT ![q] = "select"]
  /\ cqTask' = [cqTask EXCEPT ![q] = "exchange"]
  /\ UNCHANGED <<resultChan, cqCtx, cqRet, notCQ>>

\* ntp.QueryWithOptions returns in the goroutine, with a response or an error.
CQExchangeReturns(q) ==
  /\ cqTask[q] = "exchange"
  /\ \E r \in {"response", "error"} :
       cqTask' = [cqTask EXCEPT ![q] = r]
  /\ UNCHANGED <<cqPc, resultChan, cqCtx, cqRet, notCQ>>

\* The goroutine sends its result and ends.
CQSend(q) ==
  /\ cqTask[q] \in {"response", "error"}
  /\ CanSend(resultChan[q], cqPc[q] = "select")
  /\ resultChan' = [resultChan EXCEPT ![q] = Append(@, cqTask[q])]
  /\ cqTask' = [cqTask EXCEPT ![q] = "exited"]
  /\ UNCHANGED <<cqPc, cqCtx, cqRet, notCQ>>

\* The select takes <-ctx.Done().
CQSelectDone(q) ==
  /\ cqPc[q] = "select"
  /\ cqCtx[q]
  /\ cqPc' = [cqPc EXCEPT ![q] = "returned"]
  /\ cqRet' = [cqRet EXCEPT ![q] = [err |-> "query context cancelled",
                                    task |-> cqTask[q]]]
  /\ UNCHANGED <<cqTask, resultChan, cqCtx, notCQ>>

\* The select takes the result from the channel.
CQSelectResult(q) ==
  /\ cqPc[q] = "select"
  /\ Len(resultChan[q]) > 0
  /\ cqPc' = [cqPc EXCEPT ![q] = "returned"]
  /\ cqRet' = [cqRet EXCEPT ![q] =
                 [err |-> IF Head(resultChan[q]) = "error"
                          THEN "ntp query failed" ELSE "nil",
                  task |-> cqTask[q]]]
  /\ resultChan' = [resultChan EXCEPT ![q] = Tail(@)]
  /\ UNCHANGED <<cqTask, cqCtx, notCQ>>

\* The context of the call is cancelled or its deadline passes.
CQCancel(q) ==
  /\ ~cqCtx[q]
  /\ cqCtx' = [cqCtx EXCEPT ![q] = TRUE]
  /\ UNCHANGED <<cqPc, cqTask, resultChan, cqRet, notCQ>>

CQNext ==
  \/ \E q \in Queries : CQStart(q)
  \/ \E q \in Queries : CQExchangeReturns(q)
  \/ \E q \in Queries : CQSend(q)
  \/ \E q \in Queries : CQSelectDone(q)
  \/ \E q \in Queries : CQSelectResult(q)
  \/ \E q \in Queries : CQCancel(q)

\* A goroutine that can run does run.
SpecCQ ==
  CQInit /\ [][CQNext]_vars /\ \A q \in Queries : WF_vars(CQSend(q))

\* C32: with the context done while the exchange is in flight, Query can
\* return at once, and what it returns with the channel empty is the
\* cancellation error; the send of the goroutine is never blocked, so the
\* goroutine ends once the exchange has returned.
C32_CancelDoesNotWait ==
  /\ [](\A q \in Queries :
          /\ (cqPc[q] = "select" /\ cqCtx[q]) => ENABLED CQSelectDone(q)
          /\ (cqPc[q] = "select" /\ cqTask[q] = "exchange")
               => ~ENABLED CQSelectResult(q)
          /\ cqRet[q].task = "exchange"
               => cqRet[q].err = "query context cancelled"
          /\ cqTask[q] \in {"response", "error"} => ENABLED CQSend(q))
  /\ \A q \in Queries :
       (cqTask[q] \in {"response", "error"}) ~> (cqTask[q] = "exited")

\* Query 1 returned the cancellation error while its exchange was in flight;
\* the goroutine has since sent its result into the buffer and ended.
C32_Witness ==
  /\ cqRet[1] = [err |-> "query context cancelled", task |-> "exchange"]
  /\ cqTask[1] = "exited"
  /\ Len(resultChan[1]) = 1

(***************************************************************************)
(* Termination of Execute (checked under SpecWPFair).                      *)
(***************************************************************************)

\* C33: an Execute in progress returns, whenever its context is cancelled;
\* when it returns all its workers have finished and the running flag is
\* cleared, and the flag is set exactly while an Execute is in progress, so a
\* later Execute is accepted.
C33_ExecuteTerminates ==
  /\ [](running <=> \E e \in Executors : InProgress(e))
  /\ [][\A e \in Executors :
          (ex[e].pc # "idle" /\ ex'[e].pc = "idle")
          => AllWorkersDone(ex[e]) /\ ~running']_vars
  /\ \A e \in Executors : InProgress(e) ~> ~InProgress(e)

\* An Execute whose context was cancelled during the submit loop, after a
\* worker had started a job, has returned the cancellation error, and the
\* pool is free again.
C33_Witness ==
  /\ ret.err = "Cancelled"
  /\ ret.started # {}
  /\ ~running
  /\ \A e \in Executors : ~InProgress(e)


(***************************************************************************)
(* Claims about removals from the DNS cache (checked under SpecDNS).       *)
(***************************************************************************)
\* C34: Invalidate and Clear do not cancel a Resolve in progress: when the
\* entry the call had read was removed before the lookup returned, a failed
\* lookup still returns that entry's IPs without error, and a successful one
\* still stores a new entry for the hostname, which is in the cache again.
C34_RemovalDoesNotCancel ==
  [][\A r \in Resolvers :
       (ResolveReturns(r) /\ Removed(resolving[r]))
       => LET w == resolving[r]
          IN \/ /\ LookupFails(r)
                /\ dnsRet'.kind = "stale"
                /\ dnsRet'.ips = heap[w.entry].IPs
                /\ dnsRet'.err = "nil"
                /\ cache'[w.host] = NoEntry
             \/ /\ dnsRet'.kind = "refreshed"
                /\ dnsRet'.err = "nil"
                /\ cache'[w.host] # NoEntry
                /\ heap'[cache'[w.host]].IPs = dnsRet'.ips]_vars

\* A lookup that outlived the removal of the entry it had read returned: it
\* failed and gave the removed entry's IPs, or it succeeded and the hostname
\* is in the cache again at the time of the removal.
C34_Witness ==
  /\ dnsRet.gone /\ dnsRet.instant
  /\ \/ dnsRet.kind = "stale" /\ cache[dnsRet.host] = NoEntry
     \/ dnsRet.kind = "refreshed" /\ cache[dnsRet.host] # NoEntry

\* C35: a Resolve that finds no entry for a hostname whose entry was removed
\* has nothing stale to serve: a failed lookup returns the resolution error
\* and no IPs, and a successful one stores an entry with the mid-range TTL.
C35_NoStaleAfterRemoval ==
  [][\A r \in Resolvers :
       (ResolveReturns(r) /\ resolving[r].cold)
       => LET w == resolving[r]
          IN \/ /\ LookupFails(r)
                /\ dnsRet'.kind = "error"
                /\ dnsRet'.err = "LookupError"
                /\ dnsRet'.ips = <<>>
             \/ /\ dnsRet'.kind = "refreshed"
                /\ heap'[cache'[w.host]].TTL =
                     (dnsConfig.minTTL + dnsConfig.maxTTL) \div 2]_vars

\* After the removal of a hostname's entry a refresh failed with the
\* resolution error, in a cache whose mid-range TTL differs from min_ttl.
C35_Witness ==
  /\ dnsRet.cold
  /\ dnsRet.kind = "error"
  /\ dnsConfig.minTTL # (dnsConfig.minTTL + dnsConfig.maxTTL) \div 2


(***************************************************************************)
(* Claims about the order of the two buckets (checked under SpecRL).       *)
(***************************************************************************)
\* An Allow call returns in this step.
AllowReturns ==
  /\ rlCalls' = rlCalls + 1
  /\ waiter' = waiter
  /\ rlRet'.value \in {"true", "false"}

\* The step takes one token of the global bucket.
TakesGlobalToken ==
  advance(global', rlNow) = advance(global, rlNow) - TokenScale

\* C36: the global token is taken first and is not given back.  An Allow
\* refused by the global bucket leaves both buckets as they were; an Allow
\* refused by the target's bucket has taken one global token and no token of
\* the target; a Query takes its global token before the target's bucket is
\* touched; and when its Wait fails on the target's bucket the global bucket
\* is left as it is, with the token the call had taken still taken.
C36_GlobalTokenNotRefunded ==
  [][/\ (AllowReturns /\ rlRet'.value = "false")
          => IF reserveN(global, rlNow, 0).ok
               THEN /\ TakesGlobalToken
                    /\ \E s \in Servers :
                         /\ perServer'[s] # NoLimiter
                         /\ ~reserveN(perServer'[s], rlNow, 0).ok
                         /\ \A o \in Servers \ {s} : perServer'[o] = perServer[o]
                         /\ perServer[s] # NoLimiter => perServer'[s] = perServer[s]
               ELSE global' = global /\ perServer' = perServer
     /\ \A c \in RLCallers :
          (waiter[c].pc = "idle" /\ waiter'[c].pc # "idle")
          => TakesGlobalToken /\ perServer' = perServer
     /\ \A c \in RLCallers :
          (waiter[c].pc # "idle" /\ waiter'[c].pc = "idle"
             /\ rlRet'.value = "PerServerRateLimit")
          => /\ global' = global
             /\ waiter[c].gAct # NoAct /\ waiter[c].gAct <= rlNow]_vars

\* An Allow took the global token at the present time and was refused by the
\* bucket of a target that an earlier call had emptied.
C36_Witness ==
  /\ rlRet = RLReturned("false", "nil")
  /\ rlCalls = 2
  /\ \A c \in RLCallers : waiter[c].pc = "idle"
  /\ global.last = rlNow
  /\ \E s \in Servers :
       /\ perServer[s] # NoLimiter
       /\ perServer[s].last < global.last
       /\ advance(perServer[s], rlNow) < TokenScale

(***************************************************************************)
(* The querier stack of a collector (internal/collector/common.go): the    *)
(* wire client, its rate limiter and the circuit breaker client around it. *)
(* Stacks are objects; a collector holds a reference to the stack it was   *)
(* constructed with.  A call is made with a context whose deadline is too  *)
(* near to wait for a token, so that a rate-limited query fails at once.   *)
(***************************************************************************)
MaxStackTime == 2
MaxStackCalls == 4
MaxStackSamples == 2

\* The collectors main constructs first.
StackCollectors == {"base", "quality"}

\* The target the collectors query.
StackTargets == {"s1"}

SampleOutcomes == {"ok", "fail"}
SingleOutcomes == {"ok", "fail", "cancelled"}

\* The configurations the collectors are constructed with.
StackConfigs ==
  { [RateLimit |-> [Enabled |-> r, GlobalRate |-> 2, PerServerRate |-> 1,
                    BurstSize |-> 1],
     CircuitBreaker |-> [Enabled |-> b, MaxRequests |-> 1,
                         Interval |-> 1, Timeout |-> DefaultTimeout,
                         FailureThreshold |-> DefaultThresholdPct]] :
      r \in BOOLEAN, b \in BOOLEAN }

\* NewRateLimiter.
NewRateLimiter(globalRate, perServerRate, burstSize) ==
  LET cfg == [globalRate |-> globalRate, perServerRate |-> perServerRate,
              burstSize |-> burstSize]
  IN [cfg |-> cfg, global |-> NewGlobalLimiter(cfg),
      perServer |-> [s \in Servers |-> NoLimiter]]

\* NewClientWithRateLimit: no rate limiter unless the global rate is positive.
NewClientWithRateLimit(globalRate, perServerRate, burstSize) ==
  [rateLimiter |-> IF globalRate > 0
                     THEN NewRateLimiter(globalRate, perServerRate, burstSize)
                     ELSE NoLimiter]

NewClient == [rateLimiter |-> NoLimiter]

\* The object createNTPClient returns: the base client, wrapped in a circuit
\* breaker client when the breaker is enabled.
NewQuerier(cfg) ==
  LET baseClient == IF cfg.RateLimit.Enabled
                      THEN NewClientWithRateLimit(cfg.RateLimit.GlobalRate,
                                                  cfg.RateLimit.PerServerRate,
                                                  cfg.RateLimit.BurstSize)
                      ELSE NewClient
  IN [querier |-> baseClient,
      wrapped |-> cfg.CircuitBreaker.Enabled,
      config |-> NewCircuitBreakerClient(
                   NewCircuitBreakerConfigWithThreshold(
                     cfg.CircuitBreaker.MaxRequests, cfg.CircuitBreaker.Interval,
                     cfg.CircuitBreaker.Timeout,
                     cfg.CircuitBreaker.FailureThreshold)),
      breakers |-> [s \in Servers |-> NoBreaker]]

\* createNTPClient: allocates a new stack and returns the reference to it.
createNTPClientShared(objs, cfg) ==
  IF objs # <<>> THEN [objs |-> objs, ref |-> 1]
  ELSE [objs |-> <<NewQuerier(cfg)>>, ref |-> 1]

createNTPClient(objs, cfg) ==
  [objs |-> Append(objs, NewQuerier(cfg)), ref |-> Len(objs) + 1]

\* NewCommonCollector.
NewCommonCollector(objs, cfg, name) ==
  LET c == createNTPClient(objs, cfg)
  IN [objs |-> c.objs,
      collector |-> [name |-> name, client |-> c.ref, enabled |-> TRUE]]

\* The collectors as constructed one after the other.
RECURSIVE NewCollectors(_, _, _)
NewCollectors(names, objs, cfg) ==
  IF names = {} THEN [objs |-> objs, client |-> [n \in {} |-> 0]]
  ELSE LET name == CHOOSE n \in names : TRUE
           c == NewCommonCollector(objs, cfg, name)
           others == NewCollectors(names \ {name}, c.objs, cfg)
       IN [objs |-> others.objs,
           client |-> [n \in names |-> IF n = name THEN c.collector.client
                                                   ELSE others.client[n]]]

\* RateLimiter.Wait(ctx, server) with a deadline too near to wait: the
\* limiter after the call and the error.  The per-server limiter is waited
\* for only after the global one has granted its token.
ServerWaited(rl, p, server) ==
  IF p.err # "nil" THEN [rl |-> rl, err |-> "PerServerRateLimit"]
  ELSE [rl |-> [rl EXCEPT !.perServer[server] = p.lim], err |-> "nil"]

ServerWaitOf(rl, server, t) ==
  ServerWaited(rl, wait(rl.perServer[server], t, FALSE, t), server)

GlobalWaited(rl, g, server, t) ==
  IF g.err # "nil" THEN [rl |-> rl, err |-> "GlobalRateLimit"]
  ELSE ServerWaitOf([rl EXCEPT !.global = g.lim,
                               !.perServer = getLimiterForServer(@, rl.cfg, server)],
                    server, t)

rateLimiterWait(rl, server, t) ==
  GlobalWaited(rl, wait(rl.global, t, FALSE, t), server, t)

\* Client.Query after the rate limiter: the NTP exchange and its outcome.
ExchangeResult(cl, outcome, tokens) ==
  [querier |-> cl,
   err |-> CASE outcome = "ok" -> "nil"
             [] outcome = "fail" -> "QueryError"
             [] OTHER -> "Cancelled",
   n |-> IF outcome = "ok" THEN 1 ELSE 0,
   tokens |-> tokens]

RateLimited(w, outcome) ==
  IF w.err # "nil"
    THEN [querier |-> [rateLimiter |-> w.rl], err |-> w.err, n |-> 0,
          tokens |-> IF w.err = "GlobalRateLimit" THEN 0 ELSE 1]
    ELSE ExchangeResult([rateLimiter |-> w.rl], outcome, 1)

\* Client.Query: the client after the call, the error returned, the number of
\* responses obtained and the number of global tokens taken.
ClientQuery(cl, server, outcome, t) ==
  IF cl.rateLimiter = NoLimiter THEN ExchangeResult(cl, outcome, 0)
  ELSE RateLimited(rateLimiterWait(cl.rateLimiter, server, t), outcome)

\* responses = append(responses, resp) after a sample, or the skip of a
\* failed one.
AppendResponse(acc, q) ==
  [querier |-> q.querier, n |-> acc.n + q.n, tokens |-> acc.tokens + q.tokens]

\* Client.QueryMultiple from its i-th sample on: the context is found done
\* before the sample doneFrom; a failed sample is skipped; the call fails
\* when the context is done or no sample has succeeded.
RECURSIVE queryMultipleLoop(_, _, _, _, _, _)
queryMultipleLoop(acc, server, outcomes, doneFrom, i, t) ==
  IF i > Len(outcomes)
    THEN [querier |-> acc.querier, err |-> IF acc.n = 0 THEN "AllFailed" ELSE "nil",
          n |-> acc.n, tokens |-> acc.tokens]
  ELSE IF i >= doneFrom
    THEN [querier |-> acc.querier, err |-> "Cancelled", n |-> acc.n,
          tokens |-> acc.tokens]
  ELSE queryMultipleLoop(
         AppendResponse(acc, ClientQuery(acc.querier, server, outcomes[i], t)),
         server, outcomes, doneFrom, i + 1, t)

\* The calls a collector makes: Query, or QueryMultiple with one outcome per
\* sample and the sample before which the context is found done.
Requests ==
  { [op |-> "Query", outcome |-> o, outcomes |-> <<>>, doneFrom |-> 2] :
      o \in SingleOutcomes }
    \cup { [op |-> "QueryMultiple", outcome |-> "ok", outcomes |-> os,
            doneFrom |-> d] :
             os \in [1..MaxStackSamples -> SampleOutcomes],
             d \in 1..(MaxStackSamples + 1) }

\* The wrapped querier's method the request names.
Invoke(cl, server, rq, t) ==
  IF rq.op = "Query" THEN ClientQuery(cl, server, rq.outcome, t)
  ELSE queryMultipleLoop([querier |-> cl, n |-> 0, tokens |-> 0], server,
                         rq.outcomes, rq.doneFrom, 1, t)

\* gobreaker's default IsSuccessful, which the Settings leave in place.
isSuccessful(err) == err = "nil"

\* Query / QueryMultiple of the stack qs up to the invocation of the wrapped
\* querier: breaker.Execute's beforeRequest when the client is wrapped.
Admitted(qs, bs, r, server) ==
  [stack |-> [qs EXCEPT !.breakers = SetBreaker(bs, server, r.breaker)],
   err |-> WrapError(r.err), generation |-> r.generation]

BreakerOf(qs, bs, server, t) == Admitted(qs, bs, beforeRequest(bs[server], t), server)

StackBegin(qs, server, t) ==
  IF ~qs.wrapped
    THEN [stack |-> qs, err |-> "nil", generation |-> 0]
    ELSE BreakerOf(qs, getBreakerForServer(qs.breakers, qs.config, server, t),
                   server, t)

AfterExecuteSuccessOnSamples(qs, server, generation, q, t) ==
  [stack |-> IF ~qs.wrapped THEN [qs EXCEPT !.querier = q.querier]
             ELSE [qs EXCEPT
                     !.querier = q.querier,
                     !.breakers = SetBreaker(qs.breakers, server,
                        afterRequest(qs.breakers[server], generation,
                                     isSuccessful(q.err) \/ q.n >= 1, t))],
   err |-> q.err, n |-> q.n, tokens |-> q.tokens]

\* The wrapped querier's method has returned q; breaker.Execute's
\* afterRequest when the client is wrapped.
AfterExecute(qs, server, generation, q, t) ==
  [stack |-> IF ~qs.wrapped THEN [qs EXCEPT !.querier = q.querier]
             ELSE [qs EXCEPT
                     !.querier = q.querier,
                     !.breakers = SetBreaker(qs.breakers, server,
                        afterRequest(qs.breakers[server], generation,
                                     isSuccessful(q.err), t))],
   err |-> q.err, n |-> q.n, tokens |-> q.tokens]

StackEnd(qs, server, generation, rq, t) ==
  AfterExecute(qs, server, generation, Invoke(qs.querier, server, rq, t), t)

StackIdle == [pc |-> "idle", collector |-> "none", server |-> "none", generation |-> 0]

\* What the last call returned: the collector and the server, the method, the
\* error, the number of samples that succeeded and whether the breaker
\* admitted the call.
StackNoReturn ==
  [collector |-> "none", server |-> "none", op |-> "none", err |-> "nil",
   n |-> 0, admitted |-> FALSE]

StackInit ==
  /\ CBQuiet
  /\ WPQuiet
  /\ RLQuiet
  /\ DNSQuiet
  /\ ScrapeQuiet
  /\ ColQuiet
  /\ SamplerQuiet
  /\ PoolQuiet
  /\ QAQuiet
  /\ ValidatorQuiet
  /\ RegQuiet
  /\ CQQuiet
  /\ BPQuiet
  /\ stConfig \in StackConfigs
  /\ stNow = 0
  /\ stacks = NewCollectors(StackCollectors, <<>>, stConfig).objs
  /\ clientOf = NewCollectors(StackCollectors, <<>>, stConfig).client
  /\ stPending = StackIdle
  /\ stRet = StackNoReturn
  /\ stTaken = [n \in StackCollectors |-> 0]
  /\ stCalls = 0

\* A collector calls Query or QueryMultiple of its client: the call is
\* rejected by the breaker or the wrapped querier is invoked.
CollectorCalls(name, server) ==
  /\ stPending.pc = "idle"
  /\ stCalls < MaxStackCalls
  /\ stCalls' = stCalls + 1
  /\ LET c == StackBegin(stacks[clientOf[name]], server, stNow)
     IN /\ stacks' = [stacks EXCEPT ![clientOf[name]] = c.stack]
        /\ IF c.err # "nil"
             THEN /\ stRet' = [collector |-> name, server |-> server,
                               op |-> "none", err |-> c.err, n |-> 0,
                               admitted |-> FALSE]
                  /\ UNCHANGED stPending
             ELSE /\ stPending' = [pc |-> "inflight", collector |-> name,
                                   server |-> server, generation |-> c.generation]
                  /\ UNCHANGED stRet
  /\ UNCHANGED <<stConfig, stNow, clientOf, stTaken, notStack>>

\* The call in progress returns.
CallReturns(rq) ==
  /\ stPending.pc = "inflight"
  /\ LET name == stPending.collector
         c == StackEnd(stacks[clientOf[name]], stPending.server,
                       stPending.generation, rq, stNow)
     IN /\ stacks' = [stacks EXCEPT ![clientOf[name]] = c.stack]
        /\ stRet' = [collector |-> name, server |-> stPending.server,
                     op |-> rq.op, err |-> c.err, n |-> c.n, admitted |-> TRUE]
        /\ stTaken' = [stTaken EXCEPT ![name] = @ + c.tokens]
  /\ stPending' = StackIdle
  /\ UNCHANGED <<stConfig, stNow, clientOf, stCalls, notStack>>

\* Time passes by one unit.
StackTick ==
  /\ stNow < MaxStackTime
  /\ stNow' = stNow + 1
  /\ stTaken' = [n \in StackCollectors |-> 0]
  /\ UNCHANGED <<stConfig, stacks, clientOf, stPending, stRet, stCalls, notStack>>

StackNext ==
  \/ \E name \in StackCollectors, server \in StackTargets :
       CollectorCalls(name, server)
  \/ \E rq \in Requests : CallReturns(rq)
  \/ StackTick

SpecStack == StackInit /\ [][StackNext]_vars

(***************************************************************************)
(* Claims about the collectors' querier stacks (checked under SpecStack).  *)
(***************************************************************************)
\* A collector's call begins, or returns, in this step.
StackCallBegins == stCalls' = stCalls + 1

StackCallReturns == stPending.pc = "inflight" /\ stPending'.pc = "idle"

\* The collector and the server of the call that begins in this step.
Beginner == IF stPending'.pc = "inflight" THEN stPending'.collector
            ELSE stRet'.collector

BeginServer == IF stPending'.pc = "inflight" THEN stPending'.server
               ELSE stRet'.server

\* The stack a collector holds.
StackOf(name) == stacks[clientOf[name]]

\* C37: every collector holds a stack of its own.  A call of one collector
\* leaves the stacks of the others as they are; it is rejected as open
\* exactly when the breaker of its own stack is Open for the target, whatever
\* the breakers of the other collectors are; and the global tokens taken at
\* one instant are bounded by the burst for each collector separately.
C37_PerCollectorStacks ==
  /\ [](\A a, b \in StackCollectors : a # b => clientOf[a] # clientOf[b])
  /\ [](stConfig.RateLimit.Enabled
          => \A n \in StackCollectors : stTaken[n] <= stConfig.RateLimit.BurstSize)
  /\ [][/\ StackCallBegins
             => /\ \A o \in StackCollectors \ {Beginner} :
                     stacks'[clientOf[o]] = StackOf(o)
                /\ (stPending' = stPending /\ stRet'.err = "CircuitOpen")
                     <=> /\ StackOf(Beginner).wrapped
                         /\ GetState(StackOf(Beginner).breakers, BeginServer,
                                     stNow) = StateOpen
        /\ StackCallReturns
             => \A o \in StackCollectors \ {stPending.collector} :
                  stacks'[clientOf[o]] = StackOf(o)]_vars

\* While the breaker of one collector is Open for the target, a query of
\* another collector to that target was admitted and succeeded, and the two
\* collectors together have taken more global tokens at one instant than the
\* burst allows one limiter.
C37_Witness ==
  /\ stConfig.RateLimit.Enabled /\ stConfig.CircuitBreaker.Enabled
  /\ stRet.admitted /\ stRet.err = "nil"
  /\ \E o \in StackCollectors \ {stRet.collector} :
       /\ GetState(StackOf(o).breakers, stRet.server, stNow) = StateOpen
       /\ stTaken[o] + stTaken[stRet.collector] > stConfig.RateLimit.BurstSize

\* The breaker of the call in progress before its return (after the lazy
\* expiry check) and after it.
BreakerBefore == currentState(StackOf(stPending.collector).breakers[stPending.server], stNow)

BreakerAfter == stacks'[clientOf[stPending.collector]].breakers[stPending.server]

\* The return of the call in progress is counted by the breaker as a success.
CountedAsSuccess ==
  \/ /\ BreakerAfter.generation = BreakerBefore.generation
     /\ BreakerAfter.counts.TotalSuccesses = BreakerBefore.counts.TotalSuccesses + 1
     /\ BreakerAfter.counts.TotalFailures = BreakerBefore.counts.TotalFailures
  \/ /\ BreakerAfter.generation # BreakerBefore.generation
     /\ BreakerBefore.state = StateHalfOpen /\ BreakerAfter.state = StateClosed

\* The return of the call in progress is counted by the breaker as a failure.
CountedAsFailure ==
  \/ /\ BreakerAfter.generation = BreakerBefore.generation
     /\ BreakerAfter.counts.TotalFailures = BreakerBefore.counts.TotalFailures + 1
     /\ BreakerAfter.counts.TotalSuccesses = BreakerBefore.counts.TotalSuccesses
  \/ /\ BreakerAfter.generation # BreakerBefore.generation
     /\ BreakerAfter.state = StateOpen
     /\ \/ BreakerBefore.state = StateHalfOpen
        \/ ReadyToTrip(BreakerBefore.thresholdPct,
                       countsOnFailure(BreakerBefore.counts))

\* C38 as stated: a QueryMultiple call of which at least one sample succeeded
\* is counted as a success.
C38_Original ==
  [][(StackCallReturns /\ StackOf(stPending.collector).wrapped
        /\ stRet'.op = "QueryMultiple" /\ stRet'.n >= 1)
       => CountedAsSuccess]_vars

\* C38 (amended): an admitted call adds one to Requests and a rejected call
\* adds nothing; the return of a call is counted once, as a success when it
\* returns no error and as a failure when it returns an error, rate-limit and
\* cancellation errors included, unless the breaker's generation has changed
\* during the call, when it is not counted at all.  QueryMultiple returns no
\* error only if a sample succeeded, and returns the cancellation error, and
\* is counted as a failure, when its context is found done before a later
\* sample although earlier samples succeeded.
C38_OneRequestPerCall ==
  [][/\ (StackCallBegins /\ StackOf(Beginner).wrapped)
          => LET qs == StackOf(Beginner)
                 cur == currentState(
                          getBreakerForServer(qs.breakers, qs.config, BeginServer,
                                              stNow)[BeginServer], stNow)
                 post == stacks'[clientOf[Beginner]].breakers[BeginServer]
             IN IF stPending'.pc = "inflight"
                  THEN /\ post.generation = cur.generation
                       /\ post.counts = [cur.counts EXCEPT !.Requests = @ + 1]
                  ELSE post = cur
     /\ (StackCallReturns /\ StackOf(stPending.collector).wrapped)
          => /\ BreakerAfter.counts.Requests =
                  IF BreakerAfter.generation = BreakerBefore.generation
                    THEN BreakerBefore.counts.Requests ELSE 0
             /\ IF BreakerBefore.generation # stPending.generation
                  THEN BreakerAfter = BreakerBefore
                  ELSE IF stRet'.err = "nil" THEN CountedAsSuccess
                                            ELSE CountedAsFailure
     /\ (StackCallReturns /\ stRet'.op = "QueryMultiple")
          => /\ stRet'.err = "nil" => stRet'.n >= 1
             /\ stRet'.n = 0 => stRet'.err \in {"AllFailed", "Cancelled"}
             /\ (stRet'.n >= 1 /\ stRet'.err # "nil") => stRet'.err = "Cancelled"]_vars

\* A QueryMultiple call was cancelled after a sample had succeeded: it
\* returned the cancellation error and the breaker counted one failure.
C38_Witness ==
  /\ stConfig.CircuitBreaker.Enabled
  /\ stRet.op = "QueryMultiple" /\ stRet.admitted
  /\ stRet.n >= 1 /\ stRet.err = "Cancelled"
  /\ StackOf(stRet.collector).breakers[stRet.server].counts.TotalFailures = 1
  /\ StackOf(stRet.collector).breakers[stRet.server].counts.Requests = 1

(***************************************************************************)
(* Claims about a failing pool query (checked under SpecPool).             *)
(***************************************************************************)
\* The pool queries through its worker pool.
WorkerPoolPath == pool.useWorkerPool /\ pool.strategy = "all"

\* C40: when the context is found done before every selected server has been
\* dispatched, a Query through the worker pool only logs the error of
\* Execute: it returns no error and a response without active servers; a
\* sequential Query returns the context's error, unless a best_n pool had
\* its max_servers responses before.
C40_WorkerPoolFailureLogged ==
  (poolRet.op = "Query" /\ poolRet.selected # <<>> /\ ~poolRet.full)
  => IF WorkerPoolPath
       THEN /\ poolRet.err = "nil"
            /\ poolRet.active = 0
            /\ poolRet.logged = "context canceled"
       ELSE /\ poolRet.logged = "nil"
            /\ \/ poolRet.err = "context canceled"
               \/ /\ pool.strategy = "best_n"
                  /\ poolRet.active >= pool.maxServers
                  /\ poolRet.err = "nil"

\* The context was cancelled while a pool of two servers was dispatched to
\* the worker pool: the query returned no error and no active server.
C40_Witness ==
  /\ poolRet.op = "Query"
  /\ WorkerPoolPath
  /\ Len(poolRet.selected) = 2 /\ Len(poolRet.contacted) = 1
  /\ poolRet.logged = "context canceled"
  /\ poolRet.err = "nil" /\ poolRet.active = 0

(***************************************************************************)
(* The pools of the Base collector (BaseCollector.collectFromPool): the    *)
(* Pool object of a collection and the DNS cache it owns.  A cache is the  *)
(* map from hostnames to entries; time is counted in seconds.              *)
(***************************************************************************)
MaxBPTime == 2
MaxBPCalls == 3

\* cfg.NTP.Pools.
PoolConfigs ==
  { [Name |-> "pool.example", Strategy |-> "best_n", MaxServers |-> 2,
     Fallback |-> ""],
    [Name |-> "time.example", Strategy |-> "all", MaxServers |-> 2,
     Fallback |-> "fallback.example"] }

PoolNames == { c.Name : c \in PoolConfigs }

NoPool == [absent |-> TRUE]

\* What resolveWithTimeout gives: addresses, or none when it fails.
LookupAnswers == Answers \cup {<<>>}

\* The Pool object NewPool returns, with the DNS cache it constructs:
\* NewDNSCache(DNSCacheConfig{}) with an empty map.
NewPoolObject(poolCfg) ==
  [pool |-> NewPool(poolCfg.Strategy, poolCfg.MaxServers, poolCfg.Fallback),
   dnsCache |-> [cfg |-> NewDNSCache([MinTTL |-> 0, MaxTTL |-> 0]),
                 entries |-> [h \in PoolNames |-> Free]]]

\* The Pool collectFromPool queries: a new one at every call.
PoolKeptAcrossCycles(kept, poolCfg) ==
  IF kept[poolCfg.Name] # NoPool THEN kept[poolCfg.Name]
  ELSE NewPoolObject(poolCfg)

PoolForCycle(kept, poolCfg) == NewPoolObject(poolCfg)

\* DNSCache.Resolve on the cache c at time t, answer being what the lookup
\* gives if one is made: the cache after the call, how the call was answered
\* and the number of lookups made.
CacheResolve(c, hostname, t, answer) ==
  IF ParseIP(hostname)
    THEN [cache |-> c, kind |-> "literal", ips |-> <<hostname>>, err |-> "nil",
          lookups |-> 0]
  ELSE IF IsHit(c.entries[hostname] # Free, c.entries[hostname], t)
    THEN [cache |-> c, kind |-> "hit", ips |-> c.entries[hostname].IPs,
          err |-> "nil", lookups |-> 0]
  ELSE IF answer = <<>>
    THEN IF c.entries[hostname] # Free
           THEN [cache |-> [c EXCEPT !.entries[hostname] = IncrementErrorCount(@)],
                 kind |-> "stale", ips |-> c.entries[hostname].IPs,
                 err |-> "nil", lookups |-> 1]
           ELSE [cache |-> c, kind |-> "error", ips |-> <<>>,
                 err |-> "LookupError", lookups |-> 1]
  ELSE [cache |-> [c EXCEPT !.entries[hostname] =
                     NewEntry(answer,
                              calculateAdaptiveTTL(c.cfg, c.entries[hostname] # Free,
                                                   c.entries[hostname]), t)],
        kind |-> "refreshed", ips |-> answer, err |-> "nil", lookups |-> 1]

\* The resolution of a pool collection: the Pool after Resolve, the kind of
\* answer of its cache, and what Pool.Resolve returns.
Resolved(obj, r) ==
  [obj |-> [obj EXCEPT !.dnsCache = r.cache], kind |-> r.kind,
   lookups |-> r.lookups,
   result |-> Resolve(obj.pool, [ips |-> r.ips, err |-> r.err])]

BPNoReturn ==
  [pool |-> "none", kind |-> "none", servers |-> <<>>, err |-> "nil",
   again |-> FALSE]

BPInit ==
  /\ CBQuiet
  /\ WPQuiet
  /\ RLQuiet
  /\ DNSQuiet
  /\ ScrapeQuiet
  /\ ColQuiet
  /\ SamplerQuiet
  /\ PoolQuiet
  /\ QAQuiet
  /\ ValidatorQuiet
  /\ RegQuiet
  /\ CQQuiet
  /\ StackQuiet
  /\ bpPools = [n \in PoolNames |-> NoPool]
  /\ bpNow = 0
  /\ bpRet = BPNoReturn
  /\ bpLookups = 0
  /\ bpResolved = {}
  /\ bpCalls = 0

\* collectFromPool(poolCfg) up to the return of the pool's Resolve.
CollectFromPoolCall(poolCfg, answer) ==
  /\ bpCalls < MaxBPCalls
  /\ bpCalls' = bpCalls + 1
  /\ LET obj == PoolForCycle(bpPools, poolCfg)
         x == Resolved(obj, CacheResolve(obj.dnsCache, poolCfg.Name, bpNow, answer))
     IN /\ bpPools' = [bpPools EXCEPT ![poolCfg.Name] = x.obj]
        /\ bpRet' = [pool |-> poolCfg.Name, kind |-> x.kind,
                     servers |-> x.result.servers, err |-> x.result.err,
                     again |-> poolCfg.Name \in bpResolved]
        /\ bpLookups' = bpLookups + x.lookups
        /\ bpResolved' = IF x.kind = "refreshed"
                           THEN bpResolved \cup {poolCfg.Name} ELSE bpResolved
  /\ UNCHANGED <<bpNow, notBP>>

\* A second passes.
BPTick ==
  /\ bpNow < MaxBPTime
  /\ bpNow' = bpNow + 1
  /\ UNCHANGED <<bpPools, bpRet, bpLookups, bpResolved, bpCalls, notBP>>

BPNext ==
  \/ \E poolCfg \in PoolConfigs, answer \in LookupAnswers :
       CollectFromPoolCall(poolCfg, answer)
  \/ BPTick

SpecBP == BPInit /\ [][BPNext]_vars

\* C39: every pool collection resolves on the empty cache of a Pool of its
\* own: it makes one DNS lookup and is answered neither from the cache nor
\* by a stale entry; a successful lookup is stored as a first resolution
\* (mid-range TTL, no errors) and a failed one gives the error, whatever the
\* earlier collections have resolved, and the cache holds no other entry.
C39_NewPoolEveryCycle ==
  [][(bpCalls' = bpCalls + 1)
       => LET name == bpRet'.pool
              c == bpPools'[name].dnsCache
          IN /\ bpLookups' = bpLookups + 1
             /\ bpRet'.kind \in {"refreshed", "error"}
             /\ \A h \in PoolNames \ {name} : c.entries[h] = Free
             /\ IF bpRet'.kind = "refreshed"
                  THEN /\ c.entries[name].TTL = (c.cfg.minTTL + c.cfg.maxTTL) \div 2
                       /\ c.entries[name].ErrorCount = 0
                       /\ c.entries[name].ExpiresAt = bpNow + c.entries[name].TTL
                  ELSE /\ c.entries[name] = Free
                       /\ bpRet'.again => bpRet'.kind = "error"]_vars

\* A pool that an earlier collection had resolved was collected again at the
\* same instant: the lookup was made again, it failed, and the collection got
\* the error and no stale addresses.
C39_Witness ==
  /\ bpRet.again
  /\ bpRet.kind = "error"
  /\ bpRet.pool = "pool.example" /\ bpRet.err # "nil"
  /\ bpNow = 0
  /\ bpLookups = 2

====
